---- MODULE Spec2Model ----
(***************************************************************************)
(* A model of the kbs2 authentication agent (src/src/kbs2/agent.rs), of    *)
(* the `kbs2 agent` command that runs it (src/src/kbs2/command.rs) and of  *)
(* the keyfile unwrapping it calls (src/src/kbs2/util.rs).                 *)
(*                                                                         *)
(* Several agent processes of one user share one socket path.  Each agent  *)
(* process walks through Agent::new, Daemonize, Agent::run (bind, accept   *)
(* loop, handle_client) and the Drop of the Agent value.                   *)
(***************************************************************************)
EXTENDS Integers, Sequences, FiniteSets, TLC

(***************************************************************************)
(* Bounds of the model.                                                    *)
(***************************************************************************)
NumProcs == 3     \* agent processes started during one behaviour
MaxUid   == 2     \* user ids are 0..MaxUid (0 is root)
MaxProto == 2     \* protocol numbers a request line may carry: 0..MaxProto
MaxReqs  == 2     \* requests answered on one connection before it ends
NumClients == 2   \* client processes that connect during one behaviour

(***************************************************************************)
(* Program constants.                                                      *)
(***************************************************************************)
PROTOCOL_VERSION == 1
MAX_WRAPPED_KEY_FILESIZE == 4096
MAX_WORK_FACTOR == 18
SPAWN_ATTEMPTS == 10

Procs   == 1 .. NumProcs
Clients == 1 .. NumClients
UIDs    == 0 .. MaxUid
\* Uid::effective() of the user's agent processes: some user other than root
Uid_effective == CHOOSE u \in UIDs : u > 0
Pubs    == {"pk1", "pk2"}
Passes  == {"pw1", "pw2"}
Ids     == {"AGE-SECRET-KEY-1A", "AGE-SECRET-KEY-1B"}

(***************************************************************************)
(* The socket file at Agent::path(): absent, or present and bound by the   *)
(* agent process `owner` (owner 0: left behind by an agent that is gone).  *)
(***************************************************************************)
NoSock    == [exists |-> FALSE, owner |-> 0]
StaleSock == [exists |-> TRUE,  owner |-> 0]
Bound(p)  == [exists |-> TRUE,  owner |-> p]

(***************************************************************************)
(* Peer credentials of an accepted stream: ok is FALSE when getsockopt     *)
(* (SO_PEERCRED) fails.                                                    *)
(***************************************************************************)
NoPeer == [ok |-> FALSE, uid |-> 0, any |-> FALSE]
Peers  == {[ok |-> TRUE, uid |-> u, any |-> TRUE] : u \in UIDs}
            \cup {[ok |-> FALSE, uid |-> 0, any |-> TRUE]}

(***************************************************************************)
(* Keyfiles as unwrap_keyfile sees them.                                   *)
(*   kind: "absent" (open fails), "scrypt" (passphrase envelope),          *)
(*         "x25519" (envelope for another kind of recipient),              *)
(*         "garbage" (not an age message),                                 *)
(*         "bare" / "bare2" (one / two unwrapped secret keys, as a config  *)
(*         with wrapped = false has them)                                  *)
(* KeyFile(path) is the file system the agent reads keyfiles from: two     *)
(* well-formed wrapped keys (passphrase "pw1") and one file for each way   *)
(* unwrapping can fail.                                                    *)
(* A keyfile that `kbs2 rekey` wrote replaces the file at its path.        *)
(***************************************************************************)
VARIABLE rewritten   \* the keyfile that create_wrapped_keypair wrote, and its path

\* salt stands for the random salt and file key of a wrapped envelope
File(k, s, w, pw, id) ==
    [kind |-> k, size |-> s, wf |-> w, pass |-> pw, id |-> id, salt |-> 0]
NotRead == File("notread", 0, 0, "", "")
NoFile  == File("absent", 0, 0, "", "")
NoRewrite == [path |-> "", file |-> NoFile]
KeyFile(path) ==
    CASE path = rewritten.path -> rewritten.file
      [] path = "kf1" -> File("scrypt", MAX_WRAPPED_KEY_FILESIZE, MAX_WORK_FACTOR, "pw1", "AGE-SECRET-KEY-1A")
      [] path = "kf2" -> File("scrypt", MAX_WRAPPED_KEY_FILESIZE - 1, MAX_WORK_FACTOR - 1, "pw1", "AGE-SECRET-KEY-1B")
      [] path = "big" -> File("scrypt", MAX_WRAPPED_KEY_FILESIZE + 1, MAX_WORK_FACTOR, "pw1", "AGE-SECRET-KEY-1A")
      [] path = "slow" -> File("scrypt", MAX_WRAPPED_KEY_FILESIZE - 1, MAX_WORK_FACTOR + 1, "pw1", "AGE-SECRET-KEY-1A")
      [] path = "x25519" -> File("x25519", MAX_WRAPPED_KEY_FILESIZE - 1, 0, "", "AGE-SECRET-KEY-1A")
      [] path = "garbage" -> File("garbage", MAX_WRAPPED_KEY_FILESIZE - 1, 0, "", "")
      [] path = "bare" -> File("bare", MAX_WRAPPED_KEY_FILESIZE - 1, 0, "", "AGE-SECRET-KEY-1A")
      [] path = "bare2" -> File("bare2", MAX_WRAPPED_KEY_FILESIZE - 1, 0, "", "AGE-SECRET-KEY-1A")
      [] OTHER -> NoFile
Paths == {"kf1", "kf2", "big", "slow", "x25519", "garbage", "missing"}
Files == {KeyFile(path) : path \in Paths}

(***************************************************************************)
(* RequestBody, Request lines and Response values.                         *)
(***************************************************************************)
Body(t, k, f, w) == [type |-> t, pubkey |-> k, keyfile |-> f, password |-> w]
NoBody == Body("", "", "", "")
RequestBodies ==
    {Body("UnwrapKey", k, f, w) : k \in Pubs, f \in Paths, w \in Passes}
      \cup {Body("QueryUnwrappedKey", k, "", "") : k \in Pubs}
      \cup {Body("GetUnwrappedKey", k, "", "") : k \in Pubs}
      \cup {Body("FlushKeys", "", "", ""), Body("Quit", "", "", "")}

\* What reader.lines() yields next: end of stream, a read error, a line that
\* does not deserialize as a Request, or a line that does.
Line(k, v, b) == [kind |-> k, protocol |-> v, body |-> b]
NoLine    == Line("none", 0, NoBody)
Eof       == Line("eof", 0, NoBody)
IoErrLine == Line("ioerr", 0, NoBody)
BadLine   == Line("malformed", 0, NoBody)
Lines ==
    {Eof, IoErrLine, BadLine}
      \cup {Line("req", v, b) : v \in 0 .. MaxProto, b \in RequestBodies}

Resp(t, k, b, v) == [type |-> t, kind |-> k, body |-> b, proto |-> v]
NoResp               == Resp("none", "", "", 0)
Success(msg)         == Resp("Success", "", msg, 0)
Failure(kind)        == Resp("Failure", kind, "", 0)
FailureMsg(kind, m)  == Resp("Failure", kind, m, 0)
VersionMismatch(v)   == Resp("Failure", "VersionMismatch", "", v)

VARIABLES
    sock,            \* the socket file at Agent::path()
    pc,              \* pc[p]: where agent process p is
    panicked,        \* panicked[p]: p's Drop hit the expect() on remove_file
    unwrapped_keys,  \* unwrapped_keys[p]: Agent.unwrapped_keys
    quitting,        \* quitting[p]: Agent.quitting
    nresp,           \* nresp[p]: responses p wrote on the connection it accepted last
    last,            \* the latest step of handle_client: who, peer, line, response, keyfile read
    backlog,         \* the listen queue of the agent's socket: clients connected, not yet accepted
    client,          \* client[c]: where client c's connection is
    hist,            \* the connection accepted last: cache at accept, lines read, responses written
    config,          \* the Config of the kbs2 command process
    ses,             \* the command process: its uids and where it is in Session::new
    store,           \* the store directory: store[l] is the file named l
    op,              \* the session operation that ran last and what it returned
    shadow,          \* what the operations so far should have left in the store
    rk,              \* the `kbs2 rekey` process: where it is and what it holds
    gen,             \* an InternalGeneratorConfig and the secret it produced
    call,            \* a Client method call: the request, the responses that came, the result
    wire,            \* one direction of a connection: bytes in flight and the reader's side
    cli,             \* one run of the kbs2 binary: its arguments, hooks, processes and events
    rg               \* one call of read_guarded and the file it reads

agentvars == <<sock, pc, panicked, unwrapped_keys, quitting, nresp, last>>
connvars  == <<backlog, client, hist>>
storevars == <<store, op, shadow>>
cmdvars   == <<config, ses, storevars>>
rekeyvars == <<rk, rewritten>>
toolvars  == <<gen, call, wire, cli, rg>>
notgen    == <<call, wire, cli, rg>>
notcall   == <<gen, wire, cli, rg>>
notwire   == <<gen, call, cli, rg>>
notcli    == <<gen, call, wire, rg>>
notrg     == <<gen, call, wire, cli>>
vars == <<agentvars, connvars, cmdvars, rekeyvars, toolvars>>

(***************************************************************************)
(* The key cache: a map pubkey -> (keyfile path, unwrapped key).           *)
(***************************************************************************)
Entry(f, key) == [keyfile |-> f, key |-> key]
EmptyMap == [k \in {} |-> Entry("", "")]
Insert(m, k, e) == [x \in (DOMAIN m) \cup {k} |-> IF x = k THEN e ELSE m[x]]
Maps == UNION {[S -> {Entry(f, id) : f \in Paths, id \in Ids}] : S \in SUBSET Pubs}

Last(p, peer, l, r, f) == [proc |-> p, peer |-> peer, line |-> l, resp |-> r, file |-> f]

Ok(v)  == [ok |-> TRUE, val |-> v]
Err(m) == [ok |-> FALSE, val |-> m]

(***************************************************************************)
(* util.rs: read_guarded and unwrap_keyfile.                               *)
(***************************************************************************)
\* a variant whose limit is exclusive
read_guarded_Exclusive(file, limit) ==
    IF file.kind = "absent" THEN Err("No such file or directory")
    ELSE IF file.size >= limit THEN Err("requested file is suspiciously large, refusing")
    ELSE Ok("bytes")

read_guarded(file, limit) ==
    IF file.kind = "absent" THEN Err("No such file or directory")
    ELSE IF file.size > limit THEN Err("requested file is suspiciously large, refusing")
    ELSE Ok("bytes")

unwrap_keyfile(file, password) ==
    LET wrapped_key == read_guarded(file, MAX_WRAPPED_KEY_FILESIZE) IN
    IF ~wrapped_key.ok THEN wrapped_key
    ELSE IF file.kind = "garbage"
        THEN Err("unable to load private key (backend reports: InvalidHeader)")
    ELSE IF file.kind # "scrypt"
        THEN Err("key unwrap failed; not a password-wrapped keyfile?")
    ELSE IF file.wf > MAX_WORK_FACTOR
        THEN Err("unable to decrypt (backend reports: ExcessiveWork)")
    ELSE IF file.pass # password
        THEN Err("unable to decrypt (backend reports: DecryptionFailed)")
    ELSE Ok(file.id)

(***************************************************************************)
(* agent.rs: handle_client's `req.protocol != PROTOCOL_VERSION`.           *)
(***************************************************************************)
\* a variant that lets newer clients through
protocol_ok_AtLeast(protocol) == protocol >= PROTOCOL_VERSION

protocol_ok(protocol) == protocol = PROTOCOL_VERSION

(***************************************************************************)
(* agent.rs: auth_client.                                                  *)
(***************************************************************************)
\* a variant that lets a peer through when its credentials cannot be read
auth_client_FailOpen(peer, agent_euid) ==
    IF peer.ok THEN peer.uid = agent_euid ELSE TRUE

auth_client(peer, agent_euid) ==
    IF peer.ok THEN peer.uid = agent_euid ELSE FALSE

(***************************************************************************)
(* agent.rs: handle_request_body, one operator per match arm.  Each        *)
(* returns the agent's new cache and quitting flag, the response, and the  *)
(* keyfile the arm read (NotRead when it read none).                       *)
(***************************************************************************)
Handled(keys, q, resp, f) == [keys |-> keys, quitting |-> q, resp |-> resp, file |-> f]

\* a variant without the contains_key check: it unwraps again and overwrites
handle_UnwrapKey_Overwrite(keys, q, body) ==
    LET file == KeyFile(body.keyfile)
        r == unwrap_keyfile(file, body.password) IN
    IF r.ok
    THEN Handled(Insert(keys, body.pubkey, Entry(body.keyfile, r.val)), q,
                 Success("OK; unwrapped key ready"), file)
    ELSE Handled(keys, q, FailureMsg("Unwrap", r.val), file)

\* a variant that reserves the cache slot before unwrapping and leaves it on failure
handle_UnwrapKey_InsertFirst(keys, q, body) ==
    IF body.pubkey \in DOMAIN keys
    THEN Handled(keys, q, Success("OK; agent already has unwrapped key"), NotRead)
    ELSE LET file == KeyFile(body.keyfile)
             r == unwrap_keyfile(file, body.password) IN
         IF r.ok
         THEN Handled(Insert(keys, body.pubkey, Entry(body.keyfile, r.val)), q,
                      Success("OK; unwrapped key ready"), file)
         ELSE Handled(Insert(keys, body.pubkey, Entry(body.keyfile, "")), q,
                      FailureMsg("Unwrap", r.val), file)

handle_UnwrapKey(keys, q, body) ==
    IF body.pubkey \in DOMAIN keys
    THEN Handled(keys, q, Success("OK; agent already has unwrapped key"), NotRead)
    ELSE LET file == KeyFile(body.keyfile)
             r == unwrap_keyfile(file, body.password) IN
         IF r.ok
         THEN Handled(Insert(keys, body.pubkey, Entry(body.keyfile, r.val)), q,
                      Success("OK; unwrapped key ready"), file)
         ELSE Handled(keys, q, FailureMsg("Unwrap", r.val), file)

handle_QueryUnwrappedKey(keys, q, body) ==
    IF body.pubkey \in DOMAIN keys
    THEN Handled(keys, q, Success("OK"), NotRead)
    ELSE Handled(keys, q, Failure("Query"), NotRead)

\* a variant that takes the wrong half of the cached pair
handle_GetUnwrappedKey_Keyfile(keys, q, body) ==
    IF body.pubkey \in DOMAIN keys
    THEN Handled(keys, q, Success(keys[body.pubkey].keyfile), NotRead)
    ELSE Handled(keys, q, Failure("Query"), NotRead)

handle_GetUnwrappedKey(keys, q, body) ==
    IF body.pubkey \in DOMAIN keys
    THEN Handled(keys, q, Success(keys[body.pubkey].key), NotRead)
    ELSE Handled(keys, q, Failure("Query"), NotRead)

\* a variant that answers without clearing
handle_FlushKeys_Keep(keys, q) ==
    Handled(keys, q, Success("OK"), NotRead)

handle_FlushKeys(keys, q) ==
    Handled(EmptyMap, q, Success("OK"), NotRead)

\* a variant that answers without setting the flag
handle_Quit_NoFlag(keys, q) ==
    Handled(keys, q, Success("OK"), NotRead)

handle_Quit(keys, q) ==
    Handled(keys, TRUE, Success("OK"), NotRead)

handle_request_body(keys, q, body) ==
    CASE body.type = "UnwrapKey"         -> handle_UnwrapKey(keys, q, body)
      [] body.type = "QueryUnwrappedKey" -> handle_QueryUnwrappedKey(keys, q, body)
      [] body.type = "GetUnwrappedKey"   -> handle_GetUnwrappedKey(keys, q, body)
      [] body.type = "FlushKeys"         -> handle_FlushKeys(keys, q)
      [] body.type = "Quit"              -> handle_Quit(keys, q)

(***************************************************************************)
(* agent.rs: Drop for Agent.  remove_file(Agent::path()) removes whatever  *)
(* file is at the path; expect() panics when there was none.               *)
(***************************************************************************)
\* a variant that leaves the file in place
drop_sock_Keep(s) == s

drop_sock(s) == NoSock
drop_panics(s) == ~s.exists

(***************************************************************************)
(* The record of one connection: whether it passed auth_client, the cache  *)
(* and quitting flag the agent had when it accepted it, the lines the      *)
(* agent read from it and the responses the agent wrote to it, in order.   *)
(***************************************************************************)
Hist(a, keys, q, s, r) == [auth |-> a, keys |-> keys, quitting |-> q, sent |-> s, rcvd |-> r]
NoHist == Hist(FALSE, EmptyMap, FALSE, <<>>, <<>>)

\* no client process has started
NoClients ==
    /\ backlog = <<>>
    /\ client = [c \in Clients |-> "idle"]
    /\ hist = NoHist

(***************************************************************************)
(* config.rs: the fields of Config that Session::new and RageLib::new      *)
(* read.                                                                   *)
(***************************************************************************)
Config(w, a, pk, kf) ==
    [wrapped |-> w, agent_autostart |-> a, public_key |-> pk, keyfile |-> kf]
NoConfig == Config(FALSE, FALSE, "", "")
Configs ==
    {Config(TRUE, a, pk, "kf1") : a \in BOOLEAN, pk \in {"pk1", "notakey"}}
      \cup {Config(FALSE, a, "pk1", kf) : a \in BOOLEAN, kf \in {"bare", "bare2", "kf1"}}

(***************************************************************************)
(* The command process in Session::new: real and effective uid, the        *)
(* passes of Agent::spawn's polling loop, how often Agent::spawn was       *)
(* called, how many agent processes it launched, how often the passphrase  *)
(* was asked for, the identity of the backend, and the error returned.     *)
(***************************************************************************)
Ses(at, u, e, n, s, l, pr, id, err) ==
    [pc |-> at, uid |-> u, euid |-> e, attempt |-> n, spawns |-> s, launched |-> l,
     prompts |-> pr, identity |-> id, err |-> err]
NoSes == Ses("none", 0, 0, 0, 0, 0, 0, "", "")

(***************************************************************************)
(* record.rs Record, and backend.rs encrypt / decrypt of a RageLib made    *)
(* from a public key and an identity.  A record file is an age message to  *)
(* one recipient whose plaintext is the JSON text of the record.           *)
(***************************************************************************)
Labels  == {"a", "b"}
Record(t, l, b) == [timestamp |-> t, label |-> l, body |-> b]
NoRecord == Record(0, "", "")
\* the records a command may add; "" is a label that names no file
Records ==
    {Record(1, l, "login") : l \in Labels \cup {""}}
      \cup {Record(2, l, "environment") : l \in Labels}

\* what current_timestamp() returns, and the records `kbs2 edit` can write
Timestamps == {1, 2}
EditedRecords == {Record(t, l, r.body) : t \in Timestamps, l \in Labels, r \in Records}

\* a variant of to_string that leaves the timestamp out
to_string_NoTimestamp(record) == <<0, record.label, record.body>>

\* serde_json::to_string(record) and serde_json::from_str
to_string(record) == <<record.timestamp, record.label, record.body>>
from_str(json) == Record(json[1], json[2], json[3])

\* the public key of an identity
to_public(id) ==
    CASE id = "AGE-SECRET-KEY-1A" -> "pk1"
      [] id = "AGE-SECRET-KEY-1B" -> "pk2"
      [] OTHER -> ""

Ct(k, to, json) == [kind |-> k, to |-> to, json |-> json]
NoCt == Ct("absent", "", <<>>)

encrypt(pubkey, record) == Ct("age", pubkey, to_string(record))

\* a variant that does not need the matching identity
decrypt_AnyKey(identity, encrypted) ==
    IF encrypted.kind # "age"
    THEN Err("unable to load private key (backend reports: InvalidHeader)")
    ELSE Ok(from_str(encrypted.json))

decrypt(identity, encrypted) ==
    IF encrypted.kind # "age"
    THEN Err("unable to load private key (backend reports: InvalidHeader)")
    ELSE IF to_public(identity) # encrypted.to
    THEN Err("unable to decrypt (backend reports: NoMatchingKeys)")
    ELSE Ok(from_str(encrypted.json))

EmptyStore == [l \in Labels |-> NoCt]

\* what a session operation returned
Op(name, ok, label, rec, list, err) ==
    [name |-> name, ok |-> ok, label |-> label, rec |-> rec, list |-> list, err |-> err]
NoOp == Op("none", TRUE, "", NoRecord, <<>>, "")

\* the labels that should be in the store, the record each label got from
\* the add that touched it last, and whether every operation succeeded
Shadow(e, a, ok) == [expect |-> e, added |-> a, allok |-> ok]
NoRecords == [l \in {} |-> NoRecord]
NoShadow == Shadow({}, NoRecords, TRUE)

\* the store is not in use
NoStore ==
    /\ store = EmptyStore
    /\ op = NoOp
    /\ shadow = NoShadow

(***************************************************************************)
(* command.rs rekey: its position, its agent client, the records it        *)
(* decrypted (all, and those still to write), the new passphrase, the      *)
(* identity it generated, the store and public key it started from, and    *)
(* the error of a record it could not decrypt.                             *)
(***************************************************************************)
Rk(at, c, recs, todo, pw, id, s0, pk0) ==
    [pc |-> at, client |-> c, records |-> recs, todo |-> todo, new_password |-> pw,
     new_identity |-> id, store0 |-> s0, public_key0 |-> pk0, err |-> ""]
NoRk == Rk("none", "none", <<>>, <<>>, "", "", EmptyStore, "")

(***************************************************************************)
(* config.rs InternalGeneratorConfig: the alphabets, the length, and what  *)
(* secret() returned.                                                      *)
(***************************************************************************)
Gen(alphabets, length, called, result) ==
    [alphabets |-> alphabets, length |-> length, called |-> called, result |-> result]
NoGen == Gen(<<>>, 0, FALSE, [ok |-> TRUE, val |-> <<>>])

(***************************************************************************)
(* agent.rs Client: a call of flush_keys or quit_agent on the stream of    *)
(* one client.  inbox holds the responses the agent wrote to that stream,  *)
(* unread tells that the request is written and the agent has not read it. *)
(***************************************************************************)
Call(kind, at, unread, inbox, result) ==
    [kind |-> kind, pc |-> at, unread |-> unread, inbox |-> inbox, result |-> result]
NoCall == Call("none", "none", FALSE, <<>>, [ok |-> TRUE, val |-> ""])

(***************************************************************************)
(* agent.rs Message: one direction of a stream.  stream is the bytes       *)
(* written and not yet taken from the socket; the reader is Message::read  *)
(* ("read") or the BufReader of handle_client ("lines"), whose buffer is   *)
(* buf and whose line so far is line.  sent and got are the payloads       *)
(* written and read; ahead is the most whole messages that were waiting    *)
(* when a message was read.                                                *)
(***************************************************************************)
Wire(reader, stream, buf, line, sent, got, ahead) ==
    [reader |-> reader, stream |-> stream, buf |-> buf, line |-> line,
     sent |-> sent, got |-> got, ahead |-> ahead]
NoWire == Wire("none", <<>>, <<>>, <<>>, <<>>, <<>>, 0)

(***************************************************************************)
(* main.rs main and run: one invocation of kbs2.  Ps are its processes:    *)
(* the one started, and the child that `pass --clipboard` forks.  log is   *)
(* what happened, in order: each call of Config::call_hook and each return *)
(* of the subcommand, with the process, the outcome and the argument or    *)
(* error.  err[q] is the error process q reports so far.  flag is --force  *)
(* of new and --clipboard of pass, body the kind of record new is given,   *)
(* skip that KBS2_HOOK is set and reentrant-hooks is not.                  *)
(***************************************************************************)
Ps == {"parent", "child"}
Ev(q, what, ok, ran, arg) == [proc |-> q, what |-> what, ok |-> ok, ran |-> ran, arg |-> arg]
Cli(cmd, label, flag, body, hooks, skip, at, err, log) ==
    [cmd |-> cmd, label |-> label, flag |-> flag, body |-> body, hooks |-> hooks,
     skip |-> skip, pc |-> at, err |-> err, log |-> log]
NoCli == Cli("none", "", FALSE, "", {}, FALSE, [q \in Ps |-> "none"], [q \in Ps |-> ""], <<>>)

(***************************************************************************)
(* util.rs read_guarded(path, limit): the size of the file at path now,    *)
(* the size metadata() reported, and what was returned.                    *)
(***************************************************************************)
Rg(limit, size, at, len, result) ==
    [limit |-> limit, size |-> size, pc |-> at, len |-> len, result |-> result]
NoRg == Rg(0, 0, "none", 0, [ok |-> TRUE, val |-> 0])

\* no helper of the command line is in use
NoTools ==
    /\ gen = NoGen
    /\ call = NoCall
    /\ wire = NoWire
    /\ cli = NoCli
    /\ rg = NoRg

NoRekey ==
    /\ rk = NoRk
    /\ rewritten = NoRewrite

\* no kbs2 command is running
NoCommand ==
    /\ NoRekey
    /\ NoTools
    /\ config = NoConfig
    /\ ses = NoSes
    /\ NoStore

TypeOK ==
    /\ sock \in {NoSock, StaleSock} \cup {Bound(p) : p \in Procs}
    /\ pc \in [Procs -> {"start", "constructed", "daemonized", "accepting", "handling",
                         "new_err", "daemonize_err", "run_err", "run_ok"}]
    /\ panicked \in [Procs -> BOOLEAN]
    /\ \A p \in Procs : unwrapped_keys[p] \in Maps
    /\ quitting \in [Procs -> BOOLEAN]
    /\ nresp \in [Procs -> 0 .. MaxReqs + 1]
    /\ last.proc \in 0 .. NumProcs
    /\ last.peer \in Peers \cup {NoPeer}
    /\ last.line \in Lines \cup {NoLine}
    /\ last.file \in Files \cup {NotRead}
    /\ Len(backlog) <= NumClients
    /\ \A i \in 1 .. Len(backlog) : backlog[i] \in Clients
    /\ client \in [Clients -> {"idle", "queued", "connected", "closed", "refused", "reset"}]
    /\ hist.auth \in BOOLEAN
    /\ hist.keys \in Maps
    /\ Len(hist.sent) <= MaxReqs + 1
    /\ Len(hist.rcvd) <= MaxReqs + 1
    /\ [config EXCEPT !.public_key = "pk1"] \in Configs \cup {[NoConfig EXCEPT !.public_key = "pk1"]}
    /\ rk.pc \in {"none", "start", "oldsession", "confirm", "backup", "collect", "password",
                  "keypair", "config", "connect", "flush", "addkey", "drop", "newsession",
                  "reencrypt", "done", "declined", "failed"}
    /\ rk.client \in {"none", "open", "dropped"}
    /\ Len(rk.records) <= Cardinality(Labels) /\ Len(rk.todo) <= Len(rk.records)
    /\ rk.new_password \in Passes \cup {""}
    /\ rk.new_identity \in Ids \cup {""}
    /\ rewritten.path \in Paths \cup {""}
    /\ ses.pc \in {"none", "new", "polling", "store", "backend", "session", "failed"}
    /\ ses.uid \in UIDs /\ ses.euid \in UIDs
    /\ ses.attempt \in 0 .. SPAWN_ATTEMPTS
    /\ ses.spawns \in 0 .. 1 /\ ses.launched \in 0 .. 1 /\ ses.prompts \in 0 .. 1
    /\ ses.identity \in Ids \cup {""}
    /\ \A l \in Labels :
         store[l] \in {NoCt} \cup {encrypt(k, r) : k \in Pubs, r \in Records \cup EditedRecords}
    /\ op.ok \in BOOLEAN
    /\ op.rec \in Records \cup EditedRecords \cup {NoRecord}
    /\ shadow.expect \subseteq Labels
    /\ DOMAIN shadow.added \subseteq Labels
    /\ shadow.allok \in BOOLEAN

InitAgent ==
    /\ sock \in {NoSock, StaleSock}
    /\ pc = [p \in Procs |-> "start"]
    /\ panicked = [p \in Procs |-> FALSE]
    /\ unwrapped_keys = [p \in Procs |-> EmptyMap]
    /\ quitting = [p \in Procs |-> FALSE]
    /\ nresp = [p \in Procs |-> 0]
    /\ last = Last(0, NoPeer, NoLine, NoResp, NotRead)

Init ==
    /\ InitAgent
    /\ NoClients
    /\ NoCommand

(***************************************************************************)
(* command.rs agent(): Agent::new()?                                       *)
(***************************************************************************)
\* a variant without the exists() check
Agent_new_NoCheck(p) ==
    /\ pc[p] = "start"
    /\ pc' = [pc EXCEPT ![p] = "constructed"]
    /\ unwrapped_keys' = [unwrapped_keys EXCEPT ![p] = EmptyMap]
    /\ quitting' = [quitting EXCEPT ![p] = FALSE]
    /\ UNCHANGED <<sock, panicked, nresp, last>>

Agent_new(p) ==
    /\ pc[p] = "start"
    /\ IF sock.exists
       THEN /\ pc' = [pc EXCEPT ![p] = "new_err"]
            /\ UNCHANGED <<unwrapped_keys, quitting>>
       ELSE /\ pc' = [pc EXCEPT ![p] = "constructed"]
            /\ unwrapped_keys' = [unwrapped_keys EXCEPT ![p] = EmptyMap]
            /\ quitting' = [quitting EXCEPT ![p] = FALSE]
    /\ UNCHANGED <<sock, panicked, nresp, last>>

(***************************************************************************)
(* The Agent value is dropped: Drop::drop runs and the process ends; its   *)
(* memory, the key cache included, is gone.                                *)
(***************************************************************************)
drop_agent(p, exit) ==
    /\ pc' = [pc EXCEPT ![p] = exit]
    /\ sock' = drop_sock(sock)
    /\ panicked' = [panicked EXCEPT ![p] = drop_panics(sock)]

(***************************************************************************)
(* command.rs agent(): Daemonize::new().start()? (skipped with             *)
(* --foreground).  On failure `?` returns and the Agent is dropped.        *)
(***************************************************************************)
Daemonize(p) ==
    /\ pc[p] = "constructed"
    /\ \E started \in BOOLEAN :
         IF started
         THEN /\ pc' = [pc EXCEPT ![p] = "daemonized"]
              /\ UNCHANGED <<sock, panicked>>
         ELSE drop_agent(p, "daemonize_err")
    /\ UNCHANGED <<unwrapped_keys, quitting, nresp, last>>

(***************************************************************************)
(* Agent::run: UnixListener::bind(&self.agent_path)?.  bind fails when the *)
(* path exists (EADDRINUSE) or for another reason (bindable = FALSE); run  *)
(* then returns the error and the Agent is dropped.                        *)
(***************************************************************************)
run_bind(p) ==
    /\ pc[p] = "daemonized"
    /\ \E bindable \in BOOLEAN :
         IF ~sock.exists /\ bindable
         THEN /\ pc' = [pc EXCEPT ![p] = "accepting"]
              /\ sock' = Bound(p)
              /\ UNCHANGED panicked
         ELSE drop_agent(p, "run_err")
    /\ UNCHANGED <<unwrapped_keys, quitting, nresp, last>>

(***************************************************************************)
(* Agent::run after handle_client returned: `if self.quitting { break }`,  *)
(* then Ok(()) and the Agent is dropped; otherwise back to accept.         *)
(***************************************************************************)
\* a variant that leaves the accept loop after every connection
after_client_Break(p, q) == drop_agent(p, "run_ok")

after_client(p, q) ==
    IF q
    THEN drop_agent(p, "run_ok")
    ELSE /\ pc' = [pc EXCEPT ![p] = "accepting"]
         /\ UNCHANGED <<sock, panicked>>

(***************************************************************************)
(* Agent::run accepts the next stream and handle_client authenticates it.  *)
(* A client reaches agent p through the socket file, so the file must be   *)
(* the one p bound.                                                        *)
(***************************************************************************)
\* a variant that accepts while a connection is still being handled
accept_client_Threaded(p) ==
    /\ pc[p] \in {"accepting", "handling"}
    /\ sock = Bound(p)
    /\ \E peer \in Peers :
         IF ~auth_client(peer, Uid_effective)
         THEN /\ nresp' = [nresp EXCEPT ![p] = 1]
              /\ last' = Last(p, peer, NoLine, Failure("Auth"), NotRead)
              /\ after_client(p, quitting[p])
         ELSE /\ nresp' = [nresp EXCEPT ![p] = 0]
              /\ last' = Last(p, peer, NoLine, NoResp, NotRead)
              /\ pc' = [pc EXCEPT ![p] = "handling"]
              /\ UNCHANGED <<sock, panicked>>
    /\ UNCHANGED <<unwrapped_keys, quitting>>

accept_client(p) ==
    /\ pc[p] = "accepting"
    /\ sock = Bound(p)
    /\ \E peer \in Peers :
         IF ~auth_client(peer, Uid_effective)
         THEN /\ nresp' = [nresp EXCEPT ![p] = 1]
              /\ last' = Last(p, peer, NoLine, Failure("Auth"), NotRead)
              /\ after_client(p, quitting[p])
         ELSE /\ nresp' = [nresp EXCEPT ![p] = 0]
              /\ last' = Last(p, peer, NoLine, NoResp, NotRead)
              /\ pc' = [pc EXCEPT ![p] = "handling"]
              /\ UNCHANGED <<sock, panicked>>
    /\ UNCHANGED <<unwrapped_keys, quitting>>

(***************************************************************************)
(* handle_client: one iteration of `for line in reader.lines()`.           *)
(***************************************************************************)
\* the stream ended: the loop and handle_client return
client_eof(p) ==
    /\ pc[p] = "handling"
    /\ last' = Last(p, last.peer, Eof, NoResp, NotRead)
    /\ after_client(p, quitting[p])
    /\ UNCHANGED <<unwrapped_keys, quitting, nresp>>

\* a fatal per-connection error: one response, then return
\* a variant that forgets the keys when a connection ends in an error
client_fatal_Forget(p, line, resp) ==
    /\ nresp' = [nresp EXCEPT ![p] = @ + 1]
    /\ last' = Last(p, last.peer, line, resp, NotRead)
    /\ after_client(p, quitting[p])
    /\ unwrapped_keys' = [unwrapped_keys EXCEPT ![p] = EmptyMap]
    /\ UNCHANGED quitting

\* a variant that answers and goes on reading the connection
client_fatal_Continue(p, line, resp) ==
    /\ nresp[p] < MaxReqs
    /\ nresp' = [nresp EXCEPT ![p] = @ + 1]
    /\ last' = Last(p, last.peer, line, resp, NotRead)
    /\ UNCHANGED <<sock, pc, panicked, unwrapped_keys, quitting>>

client_fatal(p, line, resp) ==
    /\ nresp' = [nresp EXCEPT ![p] = @ + 1]
    /\ last' = Last(p, last.peer, line, resp, NotRead)
    /\ after_client(p, quitting[p])
    /\ UNCHANGED <<unwrapped_keys, quitting>>

client_io_error(p) ==
    /\ pc[p] = "handling"
    /\ client_fatal(p, IoErrLine, FailureMsg("Io", "stream did not contain valid UTF-8"))

client_malformed(p) ==
    /\ pc[p] = "handling"
    /\ client_fatal(p, BadLine, FailureMsg("Malformed", "expected value at line 1 column 1"))

\* a variant that answers from the cache but does not store what the
\* request did to it
client_request_Stale(p, offered) ==
    /\ pc[p] = "handling"
    /\ \E line \in {l \in offered : l.kind = "req"} :
         IF ~protocol_ok(line.protocol)
         THEN client_fatal(p, line, VersionMismatch(PROTOCOL_VERSION))
         ELSE /\ nresp[p] < MaxReqs
              /\ LET h == handle_request_body(unwrapped_keys[p], quitting[p], line.body) IN
                   /\ quitting' = [quitting EXCEPT ![p] = h.quitting]
                   /\ nresp' = [nresp EXCEPT ![p] = @ + 1]
                   /\ last' = Last(p, last.peer, line, h.resp, h.file)
              /\ UNCHANGED <<sock, pc, panicked, unwrapped_keys>>

client_request(p, offered) ==
    /\ pc[p] = "handling"
    /\ \E line \in {l \in offered : l.kind = "req"} :
         IF ~protocol_ok(line.protocol)
         THEN client_fatal(p, line, VersionMismatch(PROTOCOL_VERSION))
         ELSE /\ nresp[p] < MaxReqs
              /\ LET h == handle_request_body(unwrapped_keys[p], quitting[p], line.body) IN
                   /\ unwrapped_keys' = [unwrapped_keys EXCEPT ![p] = h.keys]
                   /\ quitting' = [quitting EXCEPT ![p] = h.quitting]
                   /\ nresp' = [nresp EXCEPT ![p] = @ + 1]
                   /\ last' = Last(p, last.peer, line, h.resp, h.file)
              /\ UNCHANGED <<sock, pc, panicked>>

(***************************************************************************)
(* Spec: one agent process and clients that may send any line.             *)
(***************************************************************************)
Next ==
    \E p \in {1} :
        \/ Agent_new(p) /\ UNCHANGED <<connvars, cmdvars, rekeyvars, toolvars>>
        \/ Daemonize(p) /\ UNCHANGED <<connvars, cmdvars, rekeyvars, toolvars>>
        \/ run_bind(p) /\ UNCHANGED <<connvars, cmdvars, rekeyvars, toolvars>>
        \/ accept_client(p) /\ UNCHANGED <<connvars, cmdvars, rekeyvars, toolvars>>
        \/ client_eof(p) /\ UNCHANGED <<connvars, cmdvars, rekeyvars, toolvars>>
        \/ client_io_error(p) /\ UNCHANGED <<connvars, cmdvars, rekeyvars, toolvars>>
        \/ client_malformed(p) /\ UNCHANGED <<connvars, cmdvars, rekeyvars, toolvars>>
        \/ client_request(p, Lines) /\ UNCHANGED <<connvars, cmdvars, rekeyvars, toolvars>>

Spec == Init /\ [][Next]_vars

(***************************************************************************)
(* SpecLife: NumProcs agent processes of one user started at any time,     *)
(* and clients that send the lines of LifeLines.                           *)
(***************************************************************************)
LifeLines ==
    {Line("req", PROTOCOL_VERSION, Body("UnwrapKey", "pk1", "kf1", "pw1")),
     Line("req", PROTOCOL_VERSION, Body("Quit", "", "", "")),
     Line("req", PROTOCOL_VERSION - 1, Body("Quit", "", "", ""))}

NextLife ==
    \E p \in Procs :
        \/ Agent_new(p) /\ UNCHANGED <<connvars, cmdvars, rekeyvars, toolvars>>
        \/ Daemonize(p) /\ UNCHANGED <<connvars, cmdvars, rekeyvars, toolvars>>
        \/ run_bind(p) /\ UNCHANGED <<connvars, cmdvars, rekeyvars, toolvars>>
        \/ accept_client(p) /\ UNCHANGED <<connvars, cmdvars, rekeyvars, toolvars>>
        \/ client_eof(p) /\ UNCHANGED <<connvars, cmdvars, rekeyvars, toolvars>>
        \/ client_io_error(p) /\ UNCHANGED <<connvars, cmdvars, rekeyvars, toolvars>>
        \/ client_malformed(p) /\ UNCHANGED <<connvars, cmdvars, rekeyvars, toolvars>>
        \/ client_request(p, LifeLines) /\ UNCHANGED <<connvars, cmdvars, rekeyvars, toolvars>>

SpecLife == Init /\ [][NextLife]_vars

(***************************************************************************)
(* Clients of one agent.  Client::new connects to the socket file; the     *)
(* kernel queues the connection until the listener of Agent::run accepts   *)
(* it (listener.incoming()).  The listener lives from bind to the return   *)
(* of run.                                                                 *)
(***************************************************************************)
Listening(p) == pc[p] \in {"accepting", "handling"}

\* Client::new: UnixStream::connect(Agent::path())
Client_new(c) ==
    /\ client[c] = "idle"
    /\ IF \E p \in Procs : sock = Bound(p) /\ Listening(p)
       THEN /\ client' = [client EXCEPT ![c] = "queued"]
            /\ backlog' = Append(backlog, c)
       ELSE /\ client' = [client EXCEPT ![c] = "refused"]
            /\ UNCHANGED backlog
    /\ UNCHANGED <<agentvars, hist, cmdvars>>

\* what a step of agent p does to the connections: the stream handle_client
\* returned from is dropped (closed); when run returns the listener is
\* dropped and the connections still queued are reset.  `taken` is the
\* client whose connection the step accepted (0: none).
Streams(p, taken) ==
    /\ client' = [c \in Clients |->
                    IF c = taken \/ client[c] = "connected"
                    THEN IF pc'[p] = "handling" THEN "connected" ELSE "closed"
                    ELSE IF client[c] = "queued" /\ pc'[p] \notin {"accepting", "handling"}
                         THEN "reset"
                         ELSE client[c]]
    /\ backlog' = IF pc'[p] \notin {"accepting", "handling"}
                  THEN <<>>
                  ELSE IF taken = 0 THEN backlog ELSE Tail(backlog)

\* Agent::run: listener.incoming() yields the connection queued first and
\* handle_client authenticates it
run_accept(p) ==
    /\ backlog # <<>>
    /\ accept_client(p)
    /\ hist' = Hist(last'.resp = NoResp, unwrapped_keys[p], quitting[p], <<>>,
                    IF last'.resp = NoResp THEN <<>> ELSE <<last'.resp>>)
    /\ Streams(p, Head(backlog))
    /\ UNCHANGED cmdvars

\* handle_client reads a line and writes its response
run_line(p, offered) ==
    /\ \/ client_io_error(p)
       \/ client_malformed(p)
       \/ client_request(p, offered)
    /\ hist' = [hist EXCEPT !.sent = Append(@, last'.line),
                            !.rcvd = Append(@, last'.resp)]
    /\ Streams(p, 0)
    /\ UNCHANGED cmdvars

\* handle_client reads end of file: the client closed its stream
run_eof(p) ==
    /\ client_eof(p)
    /\ UNCHANGED hist
    /\ Streams(p, 0)
    /\ UNCHANGED cmdvars

ConnLines ==
    {Line("req", PROTOCOL_VERSION, Body("UnwrapKey", "pk1", "kf1", "pw1")),
     Line("req", PROTOCOL_VERSION, Body("GetUnwrappedKey", "pk1", "", "")),
     Line("req", PROTOCOL_VERSION, Body("FlushKeys", "", "", "")),
     Line("req", PROTOCOL_VERSION, Body("Quit", "", "", "")),
     Line("req", PROTOCOL_VERSION - 1, Body("GetUnwrappedKey", "pk1", "", ""))}

(***************************************************************************)
(* SpecConn: one agent process and NumClients clients that connect at any  *)
(* time and send the lines of ConnLines.                                   *)
(***************************************************************************)
NextConn ==
    \/ \E c \in Clients : Client_new(c) /\ UNCHANGED <<rekeyvars, toolvars>>
    \/ \E p \in {1} :
        \/ Agent_new(p) /\ UNCHANGED <<connvars, cmdvars, rekeyvars, toolvars>>
        \/ Daemonize(p) /\ UNCHANGED <<connvars, cmdvars, rekeyvars, toolvars>>
        \/ run_bind(p) /\ UNCHANGED <<connvars, cmdvars, rekeyvars, toolvars>>
        \/ run_accept(p) /\ UNCHANGED <<rekeyvars, toolvars>>
        \/ run_eof(p) /\ UNCHANGED <<rekeyvars, toolvars>>
        \/ run_line(p, ConnLines) /\ UNCHANGED <<rekeyvars, toolvars>>

SpecConn == Init /\ [][NextConn]_vars

(***************************************************************************)
(* SpecConnFair: SpecConn with the scheduling the claim about waiting      *)
(* clients assumes.  The agent's thread sits in listener.incoming() when   *)
(* it is not handling a connection, so a queued connection is accepted     *)
(* (WF on run_accept); every client that is being served eventually closes *)
(* its stream, which the agent reads as end of file (WF on run_eof).       *)
(***************************************************************************)
SpecConnFair ==
    /\ SpecConn
    /\ \A p \in {1} : /\ WF_vars(run_accept(p) /\ UNCHANGED <<rekeyvars, toolvars>>)
                       /\ WF_vars(run_eof(p) /\ UNCHANGED <<rekeyvars, toolvars>>)

(***************************************************************************)
(* session.rs Session::new, with agent.rs Agent::spawn and backend.rs      *)
(* RageLib::new, run by one kbs2 command process.                          *)
(***************************************************************************)
SesFailed(msg) == ses' = [ses EXCEPT !.pc = "failed", !.err = msg]

\* a variant of Agent::spawn without the uid check
Agent_spawn_NoUidCheck ==
    IF sock.exists
    THEN ses' = [ses EXCEPT !.spawns = @ + 1, !.pc = "store"]
    ELSE \E exe, child \in BOOLEAN :
           IF exe /\ child
           THEN ses' = [ses EXCEPT !.spawns = @ + 1, !.launched = @ + 1,
                                   !.attempt = 0, !.pc = "polling"]
           ELSE ses' = [ses EXCEPT !.spawns = @ + 1, !.pc = "failed",
                                   !.err = IF exe THEN "spawn failed"
                                           ELSE "failed to locate the kbs2 binary"]

\* Agent::spawn up to its polling loop: the exists() check, the uid check,
\* current_exe() and Command::spawn()
Agent_spawn ==
    IF sock.exists
    THEN ses' = [ses EXCEPT !.spawns = @ + 1, !.pc = "store"]
    ELSE IF ses.uid = 0 \/ ses.uid # ses.euid
    THEN ses' = [ses EXCEPT !.spawns = @ + 1, !.pc = "failed",
                            !.err = "unusual UID or UID/EUID pair found, refusing to spawn"]
    ELSE \E exe, child \in BOOLEAN :
           IF exe /\ child
           THEN ses' = [ses EXCEPT !.spawns = @ + 1, !.launched = @ + 1,
                                   !.attempt = 0, !.pc = "polling"]
           ELSE ses' = [ses EXCEPT !.spawns = @ + 1, !.pc = "failed",
                                   !.err = IF exe THEN "spawn failed"
                                           ELSE "failed to locate the kbs2 binary"]

\* a variant of Session::new that spawns for every wrapped key
Session_new_AlwaysSpawn ==
    /\ ses.pc = "new"
    /\ IF config.wrapped
       THEN Agent_spawn
       ELSE ses' = [ses EXCEPT !.pc = "store"]
    /\ UNCHANGED <<agentvars, connvars, config, storevars>>

\* Session::new: `if config.wrapped && config.agent_autostart { Agent::spawn()?; }`
Session_new ==
    /\ ses.pc = "new"
    /\ IF config.wrapped /\ config.agent_autostart
       THEN Agent_spawn
       ELSE ses' = [ses EXCEPT !.pc = "store"]
    /\ UNCHANGED <<agentvars, connvars, config, storevars>>

\* a variant whose loop gives up one pass early
spawn_poll_Short ==
    /\ ses.pc = "polling"
    /\ IF sock.exists
       THEN ses' = [ses EXCEPT !.pc = "store"]
       ELSE IF ses.attempt + 2 >= SPAWN_ATTEMPTS
       THEN ses' = [ses EXCEPT !.attempt = @ + 1, !.pc = "failed",
                               !.err = "agent spawn timeout exhausted"]
       ELSE ses' = [ses EXCEPT !.attempt = @ + 1]
    /\ UNCHANGED <<agentvars, connvars, config, storevars>>

\* Agent::spawn: one pass of `for attempt in 0..10`, after its sleep
spawn_poll ==
    /\ ses.pc = "polling"
    /\ IF sock.exists
       THEN ses' = [ses EXCEPT !.pc = "store"]
       ELSE IF ses.attempt + 1 = SPAWN_ATTEMPTS
       THEN ses' = [ses EXCEPT !.attempt = @ + 1, !.pc = "failed",
                               !.err = "agent spawn timeout exhausted"]
       ELSE ses' = [ses EXCEPT !.attempt = @ + 1]
    /\ UNCHANGED <<agentvars, connvars, config, storevars>>

\* Session::new: fs::create_dir_all(&config.store)?
Session_store ==
    /\ ses.pc = "store"
    /\ \E created \in BOOLEAN :
         IF created
         THEN ses' = [ses EXCEPT !.pc = "backend"]
         ELSE SesFailed("create_dir_all failed")
    /\ UNCHANGED <<agentvars, connvars, config, storevars>>

\* config.public_key.parse::<RecipientKey>()
parse_public_key(pk) == pk \in Pubs

\* the agent a client of this user reaches through the socket file
Reachable(p) == sock = Bound(p) /\ Listening(p)

\* RageLib::new for a wrapped key, the unwrapped key coming from agent p:
\* it is there already, or the keyfile is unwrapped with a passphrase asked
\* from the user
RageLib_new_wrapped(p) ==
    IF config.public_key \in DOMAIN unwrapped_keys[p]
    THEN /\ ses' = [ses EXCEPT !.pc = "session",
                               !.identity = unwrapped_keys[p][config.public_key].key]
         /\ UNCHANGED unwrapped_keys
    ELSE \E password \in Passes :
           LET h == handle_request_body(unwrapped_keys[p], quitting[p],
                       Body("UnwrapKey", config.public_key, config.keyfile, password))
           IN  /\ unwrapped_keys' = [unwrapped_keys EXCEPT ![p] = h.keys]
               /\ IF h.resp.type = "Success"
                  THEN ses' = [ses EXCEPT !.prompts = @ + 1, !.pc = "session",
                                          !.identity = h.keys[config.public_key].key]
                  ELSE ses' = [ses EXCEPT !.prompts = @ + 1, !.pc = "failed",
                                          !.err = h.resp.body]

\* RageLib::new
RageLib_new ==
    /\ ses.pc = "backend"
    /\ IF ~parse_public_key(config.public_key)
       THEN SesFailed("unable to parse public key") /\ UNCHANGED unwrapped_keys
       ELSE IF ~config.wrapped
       THEN LET file == KeyFile(config.keyfile) IN
            /\ UNCHANGED unwrapped_keys
            /\ IF file.kind = "bare"
               THEN ses' = [ses EXCEPT !.pc = "session", !.identity = file.id]
               ELSE IF file.kind = "bare2"
               THEN SesFailed("expected exactly one private key in the keyfile, but got 2")
               ELSE SesFailed("unable to parse private key")
       ELSE IF \E p \in Procs : Reachable(p)
       THEN \E p \in Procs :
              /\ Reachable(p)
              /\ pc[p] = "accepting"
              /\ RageLib_new_wrapped(p)
       ELSE SesFailed("unwrapped key not reachable") /\ UNCHANGED unwrapped_keys
    /\ UNCHANGED <<sock, pc, panicked, quitting, nresp, last, connvars, config, storevars>>

(***************************************************************************)
(* SpecSess: one kbs2 command process constructs a session, under any      *)
(* config and any real/effective uid pair; the agent processes are the     *)
(* ones Agent::spawn launched.                                             *)
(***************************************************************************)
\* agent process p is a child that Agent::spawn launched
Launched(p) == p <= ses.launched

InitSess ==
    /\ InitAgent
    /\ NoRekey
    /\ NoTools
    /\ NoClients
    /\ config \in Configs
    /\ ses \in {Ses("new", u, e, 0, 0, 0, 0, "", "") : u \in UIDs, e \in UIDs}
    /\ NoStore

NextSess ==
    \/ Session_new /\ UNCHANGED <<rekeyvars, toolvars>>
    \/ spawn_poll /\ UNCHANGED <<rekeyvars, toolvars>>
    \/ Session_store /\ UNCHANGED <<rekeyvars, toolvars>>
    \/ RageLib_new /\ UNCHANGED <<rekeyvars, toolvars>>
    \/ \E p \in Procs :
        \/ Launched(p) /\ Agent_new(p) /\ UNCHANGED <<connvars, cmdvars, rekeyvars, toolvars>>
        \/ Launched(p) /\ Daemonize(p) /\ UNCHANGED <<connvars, cmdvars, rekeyvars, toolvars>>
        \/ Launched(p) /\ run_bind(p) /\ UNCHANGED <<connvars, cmdvars, rekeyvars, toolvars>>

SpecSess == InitSess /\ [][NextSess]_vars

(***************************************************************************)
(* session.rs: the record operations of a constructed Session.  A record   *)
(* lives in the file store/<label>; Path::join of the store directory and  *)
(* "" is the directory itself, which is no file.                           *)
(***************************************************************************)
Remove(m, k) == [x \in (DOMAIN m) \ {k} |-> m[x]]

\* Path::new(&config.store).join(label): "" (like ".") names the store
\* directory itself, any other label the entry of that name
is_dir(label) == label = ""
is_file(label) == label \in Labels /\ store[label].kind # "absent"

\* anyhow!("no such record: {}", label)
NoSuchRecord(label) ==
    CASE label = "a" -> "no such record: a"
      [] label = "b" -> "no such record: b"
      [] OTHER -> "no such record: "

has_record(label) == is_file(label)

get_record(label) ==
    IF ~has_record(label)
    THEN Err(NoSuchRecord(label))
    ELSE decrypt(ses.identity, store[label])

\* fs::read_dir(store): every file of the directory once, in any order
read_dir ==
    LET present == {l \in Labels : store[l].kind # "absent"} IN
    {seq \in [1 .. Cardinality(present) -> present] :
        \A i, j \in DOMAIN seq : seq[i] = seq[j] => i = j}

OpFailed(name, label, err) ==
    /\ op' = Op(name, FALSE, label, NoRecord, <<>>, err)
    /\ shadow' = [shadow EXCEPT !.allok = FALSE]

\* Session::record_labels
record_labels ==
    /\ ses.pc = "session"
    /\ \E labels \in read_dir : op' = Op("labels", TRUE, "", NoRecord, labels, "")
    /\ UNCHANGED <<agentvars, connvars, config, ses, store, shadow>>

\* Session::get_record, called by a command
do_get_record(label) ==
    /\ ses.pc = "session"
    /\ LET r == get_record(label) IN
         op' = IF r.ok THEN Op("get", TRUE, label, r.val, <<>>, "")
                       ELSE Op("get", FALSE, label, NoRecord, <<>>, r.val)
    /\ UNCHANGED <<agentvars, connvars, config, ses, store, shadow>>

\* a variant that does not replace a file that is already there
add_record_KeepOld(record) ==
    /\ ses.pc = "session"
    /\ \E written \in BOOLEAN :
         IF record.label \in Labels /\ written
         THEN /\ store' = IF has_record(record.label) THEN store
                           ELSE [store EXCEPT ![record.label] =
                                    encrypt(config.public_key, record)]
              /\ op' = Op("add", TRUE, record.label, record, <<>>, "")
              /\ shadow' = [shadow EXCEPT !.expect = @ \cup {record.label},
                                           !.added = Insert(@, record.label, record)]
         ELSE /\ OpFailed("add", record.label, "write failed")
              /\ UNCHANGED store
    /\ UNCHANGED <<agentvars, connvars, config, ses>>

\* Session::add_record: encrypt, then std::fs::write(store/label)
add_record(record) ==
    /\ ses.pc = "session"
    /\ \E written \in BOOLEAN :
         IF record.label \in Labels /\ written
         THEN /\ store' = [store EXCEPT ![record.label] =
                              encrypt(config.public_key, record)]
              /\ op' = Op("add", TRUE, record.label, record, <<>>, "")
              /\ shadow' = [shadow EXCEPT !.expect = @ \cup {record.label},
                                           !.added = Insert(@, record.label, record)]
         ELSE /\ OpFailed("add", record.label, "write failed")
              /\ UNCHANGED store
    /\ UNCHANGED <<agentvars, connvars, config, ses>>

\* a variant that answers every label that is not a record alike
delete_record_HasCheck(label) ==
    /\ ses.pc = "session"
    /\ IF ~has_record(label)
       THEN OpFailed("delete", label, NoSuchRecord(label)) /\ UNCHANGED store
       ELSE \E removed \in BOOLEAN :
              IF removed
              THEN /\ store' = [store EXCEPT ![label] = NoCt]
                   /\ op' = Op("delete", TRUE, label, NoRecord, <<>>, "")
                   /\ shadow' = [shadow EXCEPT !.expect = @ \ {label},
                                                !.added = Remove(@, label)]
              ELSE OpFailed("delete", label, "remove_file failed") /\ UNCHANGED store
    /\ UNCHANGED <<agentvars, connvars, config, ses>>

\* a variant that reports success and leaves the file
delete_record_Keep(label) ==
    /\ ses.pc = "session"
    /\ IF is_dir(label)
       THEN OpFailed("delete", label, "Is a directory (os error 21)") /\ UNCHANGED store
       ELSE IF ~is_file(label)
       THEN OpFailed("delete", label, NoSuchRecord(label)) /\ UNCHANGED store
       ELSE /\ UNCHANGED store
            /\ op' = Op("delete", TRUE, label, NoRecord, <<>>, "")
            /\ shadow' = [shadow EXCEPT !.expect = @ \ {label},
                                         !.added = Remove(@, label)]
    /\ UNCHANGED <<agentvars, connvars, config, ses>>

\* Session::delete_record: std::fs::remove_file(store/label), whose NotFound
\* becomes "no such record"; unlink of a directory fails with EISDIR
delete_record(label) ==
    /\ ses.pc = "session"
    /\ IF is_dir(label)
       THEN OpFailed("delete", label, "Is a directory (os error 21)") /\ UNCHANGED store
       ELSE IF ~is_file(label)
       THEN OpFailed("delete", label, NoSuchRecord(label)) /\ UNCHANGED store
       ELSE \E removed \in BOOLEAN :
              IF removed
              THEN /\ store' = [store EXCEPT ![label] = NoCt]
                   /\ op' = Op("delete", TRUE, label, NoRecord, <<>>, "")
                   /\ shadow' = [shadow EXCEPT !.expect = @ \ {label},
                                                !.added = Remove(@, label)]
              ELSE OpFailed("delete", label, "remove_file failed") /\ UNCHANGED store
    /\ UNCHANGED <<agentvars, connvars, config, ses>>

\* the contents of the temporary file when the editor returns: the JSON
\* text of any record (the user may have changed every field), or text that
\* is no record
EditedTexts == {to_string(r) : r \in Records} \cup {<<>>}

\* command.rs edit: get_record(label)?, the editor on a temporary file,
\* serde_json::from_slice, `record.label = label`, `record.timestamp =
\* current_timestamp()`, session.add_record(&record)?
edit(label) ==
    /\ ses.pc = "session"
    /\ LET r == get_record(label) IN
       IF ~r.ok
       THEN /\ OpFailed("edit", label, r.val)
            /\ UNCHANGED <<agentvars, connvars, config, ses, store>>
       ELSE \E ran \in BOOLEAN : \E typed \in EditedTexts : \E now \in Timestamps :
              IF ~ran
              THEN /\ OpFailed("edit", label, "failed to run the editor")
                   /\ UNCHANGED <<agentvars, connvars, config, ses, store>>
              ELSE IF Len(typed) # 3
              THEN /\ OpFailed("edit", label, "EOF while parsing a value")
                   /\ UNCHANGED <<agentvars, connvars, config, ses, store>>
              ELSE add_record([from_str(typed) EXCEPT !.label = label, !.timestamp = now])

\* a variant that moves the file and leaves the label field as it was
rename_record_KeepLabel(old, new, force) ==
    /\ ses.pc = "session"
    /\ LET r == get_record(old) IN
       IF ~r.ok
       THEN OpFailed("rename", old, r.val) /\ UNCHANGED store
       ELSE IF has_record(new) /\ ~force
       THEN OpFailed("rename", old, "refusing to overwrite") /\ UNCHANGED store
       ELSE \E written, removed \in BOOLEAN :
              LET moved == encrypt(config.public_key, r.val)
                  added == [store EXCEPT ![new] = moved] IN
              IF ~written
              THEN OpFailed("rename", old, "write failed") /\ UNCHANGED store
              ELSE IF ~removed
              THEN /\ OpFailed("rename", old, "remove_file failed")
                   /\ store' = added
              ELSE /\ store' = [added EXCEPT ![old] = NoCt]
                   /\ op' = Op("rename", TRUE, old, NoRecord, <<new>>, "")
                   /\ shadow' = [shadow EXCEPT
                                    !.expect = (@ \cup {new}) \ {old},
                                    !.added = Remove(Remove(@, old), new)]
    /\ UNCHANGED <<agentvars, connvars, config, ses>>

\* a variant that overwrites whether or not it was asked for
rename_record_Clobber(old, new, force) ==
    /\ ses.pc = "session"
    /\ LET r == get_record(old) IN
       IF ~r.ok
       THEN OpFailed("rename", old, r.val) /\ UNCHANGED store
       ELSE \E written, removed \in BOOLEAN :
              LET moved == encrypt(config.public_key, [r.val EXCEPT !.label = new])
                  added == [store EXCEPT ![new] = moved] IN
              IF ~written
              THEN OpFailed("rename", old, "write failed") /\ UNCHANGED store
              ELSE IF ~removed
              THEN /\ OpFailed("rename", old, "remove_file failed")
                   /\ store' = added
              ELSE /\ store' = [added EXCEPT ![old] = NoCt]
                   /\ op' = Op("rename", TRUE, old, NoRecord, <<new>>, "")
                   /\ shadow' = [shadow EXCEPT
                                    !.expect = (@ \cup {new}) \ {old},
                                    !.added = Remove(Remove(@, old), new)]
    /\ UNCHANGED <<agentvars, connvars, config, ses>>

\* rename: read the old record (a missing one is NoSuchRecord); refuse when
\* the new label exists and overwriting was not asked for; write the record
\* under the new label with its label field updated; delete the old file.
rename_record(old, new, force) ==
    /\ ses.pc = "session"
    /\ LET r == get_record(old) IN
       IF ~r.ok
       THEN OpFailed("rename", old, r.val) /\ UNCHANGED store
       ELSE IF has_record(new) /\ ~force
       THEN OpFailed("rename", old, "refusing to overwrite") /\ UNCHANGED store
       ELSE \E written, removed \in BOOLEAN :
              LET moved == encrypt(config.public_key, [r.val EXCEPT !.label = new])
                  added == [store EXCEPT ![new] = moved] IN
              IF ~written
              THEN OpFailed("rename", old, "write failed") /\ UNCHANGED store
              ELSE IF ~removed
              THEN /\ OpFailed("rename", old, "remove_file failed")
                   /\ store' = added
              ELSE /\ store' = [added EXCEPT ![old] = NoCt]
                   /\ op' = Op("rename", TRUE, old, NoRecord, <<new>>, "")
                   /\ shadow' = [shadow EXCEPT
                                    !.expect = (@ \cup {new}) \ {old},
                                    !.added = Remove(Remove(@, old), new)]
    /\ UNCHANGED <<agentvars, connvars, config, ses>>

(***************************************************************************)
(* SpecStore: one session on an unwrapped key and an initially empty       *)
(* store; any sequence of record operations.                               *)
(***************************************************************************)
InitStore ==
    /\ InitAgent
    /\ NoRekey
    /\ NoTools
    /\ NoClients
    /\ config = Config(FALSE, FALSE, "pk1", "bare")
    /\ ses = Ses("session", Uid_effective, Uid_effective, 0, 0, 0, 0,
                 KeyFile("bare").id, "")
    /\ NoStore

NextStore ==
    \/ record_labels /\ UNCHANGED <<rekeyvars, toolvars>>
    \/ \E label \in Labels \cup {""} : do_get_record(label) /\ UNCHANGED <<rekeyvars, toolvars>>
    \/ \E record \in Records : add_record(record) /\ UNCHANGED <<rekeyvars, toolvars>>
    \/ \E label \in Labels \cup {""} : delete_record(label) /\ UNCHANGED <<rekeyvars, toolvars>>
    \/ \E old, new \in Labels : \E force \in BOOLEAN :
          rename_record(old, new, force) /\ UNCHANGED <<rekeyvars, toolvars>>
    \/ \E label \in Labels \cup {""} : edit(label) /\ UNCHANGED <<rekeyvars, toolvars>>

SpecStore == InitStore /\ [][NextStore]_vars

(***************************************************************************)
(* command.rs rekey, run by one kbs2 command process.  Its sessions are    *)
(* constructed by the steps of Session::new above; its agent client is     *)
(* client 1 of the agent.                                                  *)
(***************************************************************************)
RekeyFailed == rk' = [rk EXCEPT !.pc = "failed"]

\* `if !config.wrapped { return Err(..) }`, then `config.try_into()?` starts
rekey_start ==
    /\ rk.pc = "start"
    /\ IF ~config.wrapped
       THEN RekeyFailed /\ UNCHANGED ses
       ELSE /\ rk' = [rk EXCEPT !.pc = "oldsession"]
            /\ ses' = [ses EXCEPT !.pc = "new"]
    /\ UNCHANGED <<agentvars, connvars, config, storevars, rewritten, toolvars>>

\* `try_into()?` returns: the old session, the new session, or the error
rekey_session ==
    /\ rk.pc \in {"oldsession", "newsession"}
    /\ ses.pc \in {"session", "failed"}
    /\ rk' = IF ses.pc = "failed" THEN [rk EXCEPT !.pc = "failed"]
             ELSE IF rk.pc = "oldsession"
             THEN [rk EXCEPT !.pc = "confirm", !.store0 = store,
                             !.public_key0 = config.public_key]
             ELSE [rk EXCEPT !.pc = "reencrypt"]
    /\ UNCHANGED <<agentvars, connvars, cmdvars, rewritten, toolvars>>

\* Confirm::new()...interact()?
rekey_confirm ==
    /\ rk.pc = "confirm"
    /\ \E sure \in BOOLEAN :
         rk' = [rk EXCEPT !.pc = IF sure THEN "backup" ELSE "declined"]
    /\ UNCHANGED <<agentvars, connvars, cmdvars, rewritten, toolvars>>

\* the backups of keyfile, config and store, skipped with --no-backup and
\* refused when a previous backup exists
rekey_backup ==
    /\ rk.pc = "backup"
    /\ \E backup \in {"no-backup", "saved", "refused"} :
         rk' = [rk EXCEPT !.pc = IF backup = "refused" THEN "failed" ELSE "collect"]
    /\ UNCHANGED <<agentvars, connvars, cmdvars, rewritten, toolvars>>

\* a variant that leaves out the records it cannot decrypt
rekey_collect_Lossy ==
    /\ rk.pc = "collect"
    /\ \E labels \in read_dir :
         LET got  == [i \in DOMAIN labels |-> get_record(labels[i])]
             good == SelectSeq(got, LAMBDA r : r.ok)
         IN  rk' = [rk EXCEPT !.pc = "password",
                              !.records = [i \in DOMAIN good |-> good[i].val],
                              !.todo = [i \in DOMAIN good |-> good[i].val]]
    /\ UNCHANGED <<agentvars, connvars, cmdvars, rewritten, toolvars>>

\* `session.record_labels()?.iter().map(|l| session.get_record(&l)).collect()`:
\* the records in the order of the labels, or the first error
rekey_collect ==
    /\ rk.pc = "collect"
    /\ \E labels \in read_dir :
         LET got == [i \in DOMAIN labels |-> get_record(labels[i])] IN
         IF \A i \in DOMAIN got : got[i].ok
         THEN rk' = [rk EXCEPT !.pc = "password",
                               !.records = [i \in DOMAIN got |-> got[i].val],
                               !.todo = [i \in DOMAIN got |-> got[i].val]]
         ELSE LET first == CHOOSE i \in DOMAIN got :
                             ~got[i].ok /\ \A j \in 1 .. i - 1 : got[j].ok
              IN  rk' = [rk EXCEPT !.pc = "failed", !.err = got[first].val]
    /\ UNCHANGED <<agentvars, connvars, cmdvars, rewritten, toolvars>>

\* util::get_password(Some("NEW master password: "), ..)?
rekey_password ==
    /\ rk.pc = "password"
    /\ \E entered \in BOOLEAN : \E password \in Passes :
         IF entered
         THEN rk' = [rk EXCEPT !.pc = "keypair", !.new_password = password]
         ELSE RekeyFailed
    /\ UNCHANGED <<agentvars, connvars, cmdvars, rewritten, toolvars>>

\* The scrypt work factors age::Encryptor::with_user_passphrase gives an
\* envelope: it is measured on the machine, to cost about a second.
WrapFactors == (MAX_WORK_FACTOR - 1) .. (MAX_WORK_FACTOR + 1)

\* backend.rs create_wrapped_keypair: the file it writes for a generated key
create_wrapped_keypair(password, keypair, wf) ==
    File("scrypt", MAX_WRAPPED_KEY_FILESIZE - 1, wf, password, keypair)

\* RageLib::create_wrapped_keypair(&config.keyfile, new_password.clone())?:
\* a fresh secret key, written over the keyfile
rekey_keypair ==
    /\ rk.pc = "keypair"
    /\ \E keypair \in Ids \ {ses.identity} : \E wf \in WrapFactors : \E written \in BOOLEAN :
         IF written
         THEN /\ rewritten' = [path |-> config.keyfile,
                               file |-> create_wrapped_keypair(rk.new_password, keypair, wf)]
              /\ rk' = [rk EXCEPT !.pc = "config", !.new_identity = keypair]
         ELSE RekeyFailed /\ UNCHANGED rewritten
    /\ UNCHANGED <<agentvars, connvars, cmdvars, toolvars>>

\* `Config { public_key, ..config.clone() }` and std::fs::write of it
rekey_config ==
    /\ rk.pc = "config"
    /\ \E written \in BOOLEAN :
         IF written
         THEN /\ config' = [config EXCEPT !.public_key = to_public(rk.new_identity)]
              /\ rk' = [rk EXCEPT !.pc = "connect"]
         ELSE RekeyFailed /\ UNCHANGED config
    /\ UNCHANGED <<agentvars, connvars, ses, storevars, rewritten, toolvars>>

\* agent::Client::new()?
rekey_connect ==
    /\ rk.pc = "connect"
    /\ Client_new(1)
    /\ rk' = IF client'[1] = "refused" THEN [rk EXCEPT !.pc = "failed"]
             ELSE [rk EXCEPT !.pc = "flush", !.client = "open"]
    /\ UNCHANGED <<rewritten, toolvars>>

\* the credentials the agent reads from a stream of this command process
RekeyPeer == [ok |-> TRUE, uid |-> ses.euid, any |-> TRUE]

\* the agent accepts the connection of the command process
rekey_accept(p) ==
    /\ run_accept(p)
    /\ last'.peer = RekeyPeer
    /\ UNCHANGED <<rekeyvars, toolvars>>

\* a variant that leaves the agent's cache as it is
rekey_flush_Skip(p) ==
    /\ rk.pc = "flush"
    /\ pc[p] = "handling"
    /\ rk' = [rk EXCEPT !.pc = "addkey"]
    /\ UNCHANGED <<agentvars, connvars, cmdvars, rewritten, toolvars>>

\* client.flush_keys()?: the request and the agent's answer, which is not
\* looked at
rekey_flush(p) ==
    /\ rk.pc = "flush"
    /\ LET line == Line("req", PROTOCOL_VERSION, Body("FlushKeys", "", "", "")) IN
         run_line(p, {line}) /\ last'.line = line
    /\ rk' = [rk EXCEPT !.pc = "addkey"]
    /\ UNCHANGED <<rewritten, toolvars>>

\* client.add_key(&config.public_key, &config.keyfile, new_password)?; on an
\* error the client is dropped as rekey returns
rekey_add_key(p) ==
    /\ rk.pc = "addkey"
    /\ LET line == Line("req", PROTOCOL_VERSION,
                       Body("UnwrapKey", config.public_key, config.keyfile,
                            rk.new_password)) IN
         run_line(p, {line}) /\ last'.line = line
    /\ rk' = IF last'.resp.type = "Success"
             THEN [rk EXCEPT !.pc = "drop"]
             ELSE [rk EXCEPT !.pc = "failed", !.client = "dropped"]
    /\ UNCHANGED <<rewritten, toolvars>>

\* a variant that keeps the client while the new session is made
rekey_drop_Leak ==
    /\ rk.pc = "drop"
    /\ rk' = [rk EXCEPT !.pc = "newsession"]
    /\ ses' = [ses EXCEPT !.pc = "new", !.attempt = 0, !.spawns = 0, !.prompts = 0,
                          !.identity = "", !.err = ""]
    /\ UNCHANGED <<agentvars, connvars, config, storevars, rewritten, toolvars>>

\* the end of the scope of `client`: the stream is closed; then
\* `(&config).try_into()?` starts
rekey_drop ==
    /\ rk.pc = "drop"
    /\ rk' = [rk EXCEPT !.pc = "newsession", !.client = "dropped"]
    /\ ses' = [ses EXCEPT !.pc = "new", !.attempt = 0, !.spawns = 0, !.prompts = 0,
                          !.identity = "", !.err = ""]
    /\ UNCHANGED <<agentvars, connvars, config, storevars, rewritten, toolvars>>

\* the agent reads end of file from the stream the command process closed
rekey_eof(p) ==
    /\ rk.client = "dropped"
    /\ run_eof(p)
    /\ UNCHANGED <<rekeyvars, toolvars>>

\* `for record in records { session.add_record(..)?; }`: one iteration
rekey_add_record ==
    /\ rk.pc = "reencrypt"
    /\ rk.todo # <<>>
    /\ add_record(Head(rk.todo))
    /\ rk' = IF op'.ok THEN [rk EXCEPT !.todo = Tail(@)] ELSE [rk EXCEPT !.pc = "failed"]
    /\ UNCHANGED <<rewritten, toolvars>>

\* the loop is over: Ok(())
rekey_return ==
    /\ rk.pc = "reencrypt"
    /\ rk.todo = <<>>
    /\ rk' = [rk EXCEPT !.pc = "done"]
    /\ UNCHANGED <<agentvars, connvars, cmdvars, rewritten, toolvars>>

\* rekey is inside one of its two `try_into()?`
InSession == rk.pc \in {"oldsession", "newsession"}

(***************************************************************************)
(* SpecRekey: `kbs2 rekey` run by the user on a store of records that      *)
(* earlier sessions added (and possibly one file encrypted to another      *)
(* key); the agent is the one Session::new spawns.                         *)
(***************************************************************************)
RekeyStores ==
    {s \in [Labels -> {NoCt} \cup {encrypt(k, r) : k \in Pubs, r \in Records}] :
        \A l \in Labels :
          /\ s[l] # NoCt => s[l].json = to_string(from_str(s[l].json)) /\ from_str(s[l].json).label = l
          /\ s[l] # NoCt /\ s[l].to # "pk1" => l = "b" /\ from_str(s[l].json).timestamp = 1}

InitRekey ==
    /\ InitAgent
    /\ NoClients
    /\ rk = [NoRk EXCEPT !.pc = "start"]
    /\ rewritten = NoRewrite
    /\ NoTools
    /\ config \in {Config(TRUE, TRUE, "pk1", "kf1"), Config(TRUE, FALSE, "pk1", "kf1"),
                   Config(FALSE, FALSE, "pk1", "bare")}
    /\ ses = Ses("none", Uid_effective, Uid_effective, 0, 0, 0, 0, "", "")
    /\ store \in RekeyStores
    /\ op = NoOp
    /\ shadow = NoShadow

NextRekey ==
    \/ rekey_start
    \/ InSession /\ Session_new /\ UNCHANGED <<rekeyvars, toolvars>>
    \/ InSession /\ spawn_poll /\ UNCHANGED <<rekeyvars, toolvars>>
    \/ InSession /\ Session_store /\ UNCHANGED <<rekeyvars, toolvars>>
    \/ InSession /\ RageLib_new /\ UNCHANGED <<rekeyvars, toolvars>>
    \/ rekey_session
    \/ rekey_confirm
    \/ rekey_backup
    \/ rekey_collect
    \/ rekey_password
    \/ rekey_keypair
    \/ rekey_config
    \/ rekey_connect
    \/ rekey_drop
    \/ rekey_add_record
    \/ rekey_return
    \/ \E p \in Procs :
        \/ Launched(p) /\ Agent_new(p) /\ UNCHANGED <<connvars, cmdvars, rekeyvars, toolvars>>
        \/ Launched(p) /\ Daemonize(p) /\ UNCHANGED <<connvars, cmdvars, rekeyvars, toolvars>>
        \/ Launched(p) /\ run_bind(p) /\ UNCHANGED <<connvars, cmdvars, rekeyvars, toolvars>>
        \/ rekey_accept(p)
        \/ rekey_flush(p)
        \/ rekey_add_key(p)
        \/ rekey_eof(p)

SpecRekey == InitRekey /\ [][NextRekey]_vars


(***************************************************************************)
(* SpecBackend: backend.rs RageLib values used as the tests of backend.rs  *)
(* use them.  A backend is a public key (config.public_key) and an         *)
(* identity (ses.identity), matching (ragelib_backend) or not              *)
(* (ragelib_backend_bad_keypair); it encrypts a record and the result, or  *)
(* text that is no age message, is decrypted by a backend with the same or *)
(* another identity.  op holds the call made last: its record, and in list *)
(* the encrypted text; label names the identity that decrypted.            *)
(***************************************************************************)
Backend_encrypt(record) ==
    /\ op.name \in {"none", "decrypt"}
    /\ op' = Op("encrypt", TRUE, "", record, <<encrypt(config.public_key, record)>>, "")
    /\ UNCHANGED <<agentvars, connvars, config, ses, store, shadow, rekeyvars, toolvars>>

Backend_decrypt(identity, armored) ==
    /\ op.name = "encrypt"
    /\ LET encrypted == IF armored THEN op.list[1] ELSE [op.list[1] EXCEPT !.kind = "garbage"]
           r == decrypt(identity, encrypted) IN
         op' = IF r.ok THEN Op("decrypt", TRUE, identity, r.val, <<encrypted>>, "")
                       ELSE Op("decrypt", FALSE, identity, NoRecord, <<encrypted>>, r.val)
    /\ UNCHANGED <<agentvars, connvars, config, ses, store, shadow, rekeyvars, toolvars>>

InitBackend ==
    /\ InitAgent
    /\ NoClients
    /\ NoRekey
    /\ NoTools
    /\ config \in {Config(FALSE, FALSE, pk, "bare") : pk \in Pubs}
    /\ ses \in {Ses("session", Uid_effective, Uid_effective, 0, 0, 0, 0, id, "") : id \in Ids}
    /\ NoStore

NextBackend ==
    \/ \E record \in Records \cup EditedRecords : Backend_encrypt(record)
    \/ \E identity \in Ids : \E armored \in BOOLEAN : Backend_decrypt(identity, armored)

SpecBackend == InitBackend /\ [][NextBackend]_vars

(***************************************************************************)
(* SpecKeyfile: util.rs unwrap_keyfile applied to a keyfile at the path of *)
(* the config.  The file on disk (rewritten.file) is any file of KeyFiles: *)
(* every kind, sizes around the limit, work factors from below the ceiling *)
(* of the code to above the ceiling the documentation names.  op holds the *)
(* call made last: label is the passphrase given, list the identity        *)
(* returned.                                                               *)
(***************************************************************************)
\* from below the ceiling of the code to above the documented ceiling of 22
WorkFactors == (MAX_WORK_FACTOR - 1) .. (MAX_WORK_FACTOR + 5)
Sizes == {MAX_WRAPPED_KEY_FILESIZE - 1, MAX_WRAPPED_KEY_FILESIZE, MAX_WRAPPED_KEY_FILESIZE + 1}
KeyFiles ==
    {File("scrypt", size, wf, "pw1", "AGE-SECRET-KEY-1A") : size \in Sizes, wf \in WorkFactors}
      \cup {File(k, size, 0, "", "AGE-SECRET-KEY-1A") : k \in {"x25519", "garbage"}, size \in Sizes}
      \cup {NoFile}

Salts == 0 .. 2

\* util.rs wrap_key: an armored passphrase envelope of the key, under a salt
\* drawn for this envelope
wrap_key(key, password, wf, salt) ==
    [File("scrypt", MAX_WRAPPED_KEY_FILESIZE - 1, wf, password, key) EXCEPT !.salt = salt]

\* RageLib::rewrap_keyfile(&config.keyfile, old, new): the key is unwrapped
\* with old, wrapped with new, and written over the keyfile
rewrap_keyfile(old, new) ==
    /\ LET file == KeyFile(config.keyfile)
           unwrapped == unwrap_keyfile(file, old) IN
         IF ~unwrapped.ok
         THEN /\ op' = Op("rewrap", FALSE, old, NoRecord, <<new>>, unwrapped.val)
              /\ UNCHANGED <<rewritten, toolvars>>
         ELSE \E wf \in WrapFactors : \E salt \in Salts \ {file.salt} :
                /\ rewritten' = [path |-> config.keyfile,
                                 file |-> wrap_key(unwrapped.val, new, wf, salt)]
                /\ op' = Op("rewrap", TRUE, old, NoRecord, <<new>>, "")
    /\ UNCHANGED <<agentvars, connvars, config, ses, store, shadow, rk, toolvars>>

\* unwrap_keyfile(&config.keyfile, password)
Keyfile_unwrap(password) ==
    /\ LET r == unwrap_keyfile(KeyFile(config.keyfile), password) IN
         op' = IF r.ok THEN Op("unwrap", TRUE, password, NoRecord, <<r.val>>, "")
                       ELSE Op("unwrap", FALSE, password, NoRecord, <<>>, r.val)
    /\ UNCHANGED <<agentvars, connvars, config, ses, store, shadow, rekeyvars, toolvars>>

InitKeyfile ==
    /\ InitAgent
    /\ NoClients
    /\ rk = NoRk
    /\ rewritten \in {[path |-> "kf1", file |-> f] : f \in KeyFiles}
    /\ NoTools
    /\ config = Config(TRUE, FALSE, "pk1", "kf1")
    /\ ses = NoSes
    /\ NoStore

NextKeyfile ==
    \/ \E password \in Passes : Keyfile_unwrap(password)
    \/ \E old, new \in Passes : rewrap_keyfile(old, new)

SpecKeyfile == InitKeyfile /\ [][NextKeyfile]_vars

(***************************************************************************)
(* SpecQuery: `kbs2 agent query` run beside one agent process and its      *)
(* clients, under any config.  main.rs declares the subcommand; the        *)
(* dispatch of command.rs agent has arms for flush and unwrap only.        *)
(***************************************************************************)
Unreachable == "internal error: entered unreachable code"

\* fn main() -> Result<()>: the exit status of the process
exit_code(result) ==
    IF result.ok THEN 0
    ELSE IF result.err = Unreachable THEN 101
    ELSE 1

\* command.rs agent for the subcommand query: there is a subcommand, so no
\* agent is run, and the match falls through to `_ => unreachable!()`
agent_query ==
    /\ op.name = "none"
    /\ op' = Op("agent query", FALSE, "", NoRecord, <<>>, Unreachable)
    /\ UNCHANGED <<agentvars, connvars, config, ses, store, shadow, rekeyvars, toolvars>>

InitQuery ==
    /\ InitAgent
    /\ NoClients
    /\ NoRekey
    /\ NoTools
    /\ config \in Configs
    /\ ses = NoSes
    /\ NoStore

NextQuery ==
    \/ NextConn
    \/ agent_query

SpecQuery == InitQuery /\ [][NextQuery]_vars

(***************************************************************************)
(* SpecGen: generator.rs InternalGeneratorConfig::secret.  A String is the *)
(* sequence of its chars.  The config is any list of at most MaxAlphabets  *)
(* alphabets with any length up to MaxLength.                              *)
(***************************************************************************)
MaxAlphabets == 2
MaxLength == 3

NonAscii == {"e'"}
Alphabets == {<<>>, <<"a", "b">>, <<"1">>, <<"e'">>}
is_ascii(alphabet) == \A i \in 1 .. Len(alphabet) : alphabet[i] \notin NonAscii

SeqsUpTo(S, n) == UNION {[1 .. k -> S] : k \in 0 .. n}

RECURSIVE Flatten(_)
\* self.alphabets.iter().flat_map(|a| a.chars())
Flatten(alphabets) ==
    IF alphabets = <<>> THEN <<>> ELSE Head(alphabets) \o Flatten(Tail(alphabets))

\* SliceRandom::shuffle: the orders a Vec can be left in
Shuffles(v) ==
    {[i \in 1 .. Len(v) |-> v[perm[i]]] :
        perm \in {f \in [1 .. Len(v) -> 1 .. Len(v)] :
                    \A i, j \in 1 .. Len(v) : f[i] = f[j] => i = j}}

\* IteratorRandom::choose_multiple(rng, amount): amount elements of the
\* iterator, each taken at most once; all of them when it has fewer
choose_multiple(v, amount) ==
    LET n == IF amount < Len(v) THEN amount ELSE Len(v)
        picks == {f \in [1 .. n -> 1 .. Len(v)] : \A i, j \in 1 .. n : i < j => f[i] < f[j]}
    IN  {[i \in 1 .. n |-> v[f[i]]] : f \in picks}

\* the results secret() can return
secret(alphabets, length) ==
    IF alphabets = <<>> THEN {Err("generator must have at least one alphabet")}
    ELSE IF length = 0 THEN {Err("generator length is invalid (must be nonzero)")}
    ELSE LET bad == {i \in 1 .. Len(alphabets) :
                        alphabets[i] = <<>> \/ ~is_ascii(alphabets[i])} IN
         IF bad # {}
         THEN LET first == CHOOSE i \in bad : \A j \in bad : i <= j IN
              IF alphabets[first] = <<>>
              THEN {Err("generator alphabet(s) must not be empty")}
              ELSE {Err("generator alphabet(s) contain non-ascii characters")}
         ELSE IF Len(alphabets) >= length
         THEN {Err("generator invariant failure (too many separate alphabets for length?)")}
         ELSE LET sampled == {f \in [1 .. Len(alphabets) -> {"a", "b", "1"}] :
                                \A i \in 1 .. Len(alphabets) :
                                   \E k \in 1 .. Len(alphabets[i]) : f[i] = alphabets[i][k]}
              IN  UNION {UNION {{Ok(out) : out \in Shuffles(one \o remainder)} :
                                   remainder \in choose_multiple(Flatten(alphabets),
                                                                 length - Len(one))} :
                            one \in sampled}

\* generator.secret()
Generator_secret ==
    /\ ~gen.called
    /\ \E result \in secret(gen.alphabets, gen.length) :
         gen' = [gen EXCEPT !.called = TRUE, !.result = result]
    /\ UNCHANGED <<agentvars, connvars, cmdvars, rekeyvars, notgen>>

InitGen ==
    /\ InitAgent
    /\ NoClients
    /\ rk = NoRk
    /\ rewritten = NoRewrite
    /\ config = NoConfig
    /\ ses = NoSes
    /\ NoStore
    /\ gen \in {Gen(alphabets, length, FALSE, Ok(<<>>)) :
                  alphabets \in SeqsUpTo(Alphabets, MaxAlphabets), length \in 0 .. MaxLength}
    /\ call = NoCall
    /\ wire = NoWire
    /\ cli = NoCli
    /\ rg = NoRg

NextGen == Generator_secret

SpecGen == InitGen /\ [][NextGen]_vars

(***************************************************************************)
(* SpecCall: client Caller connects and calls Client::flush_keys or        *)
(* Client::quit_agent once; the other clients connect and send the lines   *)
(* of ConnLines.  The peer credentials the agent reads for a connection    *)
(* are any of Peers.                                                       *)
(***************************************************************************)
Caller == 1
CallLine == Line("req", PROTOCOL_VERSION, Body(call.kind, "", "", ""))

\* Client::new()?
call_connect ==
    /\ call.pc = "new"
    /\ Client_new(Caller)
    /\ call' = IF client'[Caller] = "refused"
               THEN [call EXCEPT !.pc = "returned",
                                 !.result = Err("failed to connect to agent; is it running?")]
               ELSE [call EXCEPT !.pc = "connected"]
    /\ UNCHANGED <<rekeyvars, notcall>>

\* Client::request: req.write(&self.stream)?, which fails on a stream the
\* agent has closed
call_write ==
    /\ call.pc = "connected"
    /\ call' = IF client[Caller] \in {"queued", "connected"}
               THEN [call EXCEPT !.pc = "sent", !.unread = TRUE]
               ELSE [call EXCEPT !.pc = "returned", !.result = Err("Broken pipe (os error 32)")]
    /\ UNCHANGED <<agentvars, connvars, cmdvars, rekeyvars, notcall>>

\* flush_keys and quit_agent: `self.request(..)?; Ok(())`
Client_return(resp) == Ok("")

\* Client::request: Response::read(&self.stream)?, then the return of
\* flush_keys or quit_agent
call_read ==
    /\ call.pc = "sent"
    /\ \/ /\ call.inbox # <<>>
          /\ call' = [call EXCEPT !.pc = "returned",
                                  !.result = Client_return(Head(call.inbox))]
       \/ /\ call.inbox = <<>>
          /\ client[Caller] \in {"closed", "reset"}
          /\ call' = [call EXCEPT !.pc = "returned",
                                  !.result = Err("EOF while parsing a value at line 1 column 0")]
    /\ UNCHANGED <<agentvars, connvars, cmdvars, rekeyvars, notcall>>

\* the agent accepts the connection queued first
call_accept(p) ==
    /\ run_accept(p)
    /\ call' = IF Head(backlog) = Caller /\ last'.resp # NoResp
               THEN [call EXCEPT !.inbox = Append(@, last'.resp)]
               ELSE call
    /\ UNCHANGED <<rekeyvars, notcall>>

\* the agent reads a line: the request of the call from the stream of
\* Caller, any line of ConnLines from another stream
call_line(p) ==
    /\ IF client[Caller] = "connected"
       THEN /\ call.unread
            /\ run_line(p, {CallLine})
            /\ last'.line = CallLine
            /\ call' = [call EXCEPT !.unread = FALSE, !.inbox = Append(@, last'.resp)]
       ELSE /\ run_line(p, ConnLines)
            /\ UNCHANGED call
    /\ UNCHANGED <<rekeyvars, notcall>>

\* the agent reads end of file: from the stream of Caller once the call
\* returned and the Client was dropped
call_eof(p) ==
    /\ client[Caller] = "connected" => call.pc = "returned"
    /\ run_eof(p)
    /\ UNCHANGED <<rekeyvars, toolvars>>

InitCall ==
    /\ InitAgent
    /\ NoClients
    /\ rk = NoRk
    /\ rewritten = NoRewrite
    /\ config = NoConfig
    /\ ses = NoSes
    /\ NoStore
    /\ gen = NoGen
    /\ wire = NoWire
    /\ cli = NoCli
    /\ rg = NoRg
    /\ call \in {Call(kind, "new", FALSE, <<>>, Ok("")) : kind \in {"FlushKeys", "Quit"}}

NextCall ==
    \/ call_connect
    \/ call_write
    \/ call_read
    \/ \E c \in Clients \ {Caller} : Client_new(c) /\ UNCHANGED <<rekeyvars, toolvars>>
    \/ \E p \in {1} :
        \/ Agent_new(p) /\ UNCHANGED <<connvars, cmdvars, rekeyvars, toolvars>>
        \/ Daemonize(p) /\ UNCHANGED <<connvars, cmdvars, rekeyvars, toolvars>>
        \/ run_bind(p) /\ UNCHANGED <<connvars, cmdvars, rekeyvars, toolvars>>
        \/ call_accept(p)
        \/ call_line(p)
        \/ call_eof(p)

SpecCall == InitCall /\ [][NextCall]_vars

(***************************************************************************)
(* SpecWire: a writer sends up to MaxMsgs messages with Message::write and *)
(* a reader takes them, one at a time, at any moment.                      *)
(***************************************************************************)
MaxMsgs == 3
Payloads == {<<"x">>, <<"y", "x">>}
Newline == "\n"

\* the index of the first '\n' of bytes (0: there is none)
FirstNewline(bytes) ==
    IF \E i \in 1 .. Len(bytes) : bytes[i] = Newline
    THEN CHOOSE i \in 1 .. Len(bytes) :
           bytes[i] = Newline /\ \A j \in 1 .. i - 1 : bytes[j] # Newline
    ELSE 0

Count(bytes) == Cardinality({i \in 1 .. Len(bytes) : bytes[i] = Newline})
Max(a, b) == IF a < b THEN b ELSE a

\* Message::write: the JSON value, '\n', flush
Message_write(payload) ==
    /\ Len(wire.sent) < MaxMsgs
    /\ wire' = [wire EXCEPT !.stream = @ \o payload \o <<Newline>>,
                            !.sent = Append(@, payload)]
    /\ UNCHANGED <<agentvars, connvars, cmdvars, rekeyvars, notwire>>

\* a variant that reads through a BufReader made for this one message: what
\* the BufReader took from the stream beyond the '\n' goes with it
Message_read_Buffered ==
    /\ wire.reader = "read"
    /\ FirstNewline(wire.stream) # 0
    /\ LET n == FirstNewline(wire.stream) IN
         wire' = [wire EXCEPT !.stream = <<>>,
                              !.got = Append(@, SubSeq(wire.stream, 1, n - 1)),
                              !.ahead = Max(@, Count(wire.stream))]
    /\ UNCHANGED <<agentvars, connvars, cmdvars, rekeyvars, notwire>>

\* Message::read: reader.bytes().take_while(..) takes one byte at a time,
\* the '\n' that ends the message being the last it takes
Message_read ==
    /\ wire.reader = "read"
    /\ FirstNewline(wire.stream) # 0
    /\ LET n == FirstNewline(wire.stream) IN
         wire' = [wire EXCEPT !.stream = SubSeq(@, n + 1, Len(@)),
                              !.got = Append(@, SubSeq(wire.stream, 1, n - 1)),
                              !.ahead = Max(@, Count(wire.stream))]
    /\ UNCHANGED <<agentvars, connvars, cmdvars, rekeyvars, notwire>>

\* handle_client, BufReader::new(&stream): with its buffer empty the
\* BufReader reads what the stream holds, or a part of it, into the buffer
lines_fill ==
    /\ wire.reader = "lines"
    /\ wire.buf = <<>>
    /\ \E n \in 1 .. Len(wire.stream) :
         wire' = [wire EXCEPT !.buf = SubSeq(wire.stream, 1, n),
                              !.stream = SubSeq(wire.stream, n + 1, Len(wire.stream))]
    /\ UNCHANGED <<agentvars, connvars, cmdvars, rekeyvars, notwire>>

\* handle_client, reader.lines(): the line ends at the first '\n' of the
\* buffer; a buffer without '\n' is added to the line so far
lines_next ==
    /\ wire.reader = "lines"
    /\ wire.buf # <<>>
    /\ LET n == FirstNewline(wire.buf) IN
         IF n = 0
         THEN wire' = [wire EXCEPT !.line = @ \o wire.buf, !.buf = <<>>]
         ELSE wire' = [wire EXCEPT !.buf = SubSeq(@, n + 1, Len(@)),
                                   !.line = <<>>,
                                   !.got = Append(@, wire.line \o SubSeq(wire.buf, 1, n - 1)),
                                   !.ahead = Max(@, Count(wire.buf \o wire.stream))]
    /\ UNCHANGED <<agentvars, connvars, cmdvars, rekeyvars, notwire>>

InitWire ==
    /\ InitAgent
    /\ NoClients
    /\ rk = NoRk
    /\ rewritten = NoRewrite
    /\ config = NoConfig
    /\ ses = NoSes
    /\ NoStore
    /\ gen = NoGen
    /\ call = NoCall
    /\ cli = NoCli
    /\ rg = NoRg
    /\ wire \in {[NoWire EXCEPT !.reader = r] : r \in {"read", "lines"}}

NextWire ==
    \/ \E payload \in Payloads : Message_write(payload)
    \/ Message_read
    \/ lines_fill
    \/ lines_next

SpecWire == InitWire /\ [][NextWire]_vars

(***************************************************************************)
(* SpecCli: main.rs run and main for the subcommands new, pass, list and   *)
(* agent, with any choice of configured hooks; every hook that is run may  *)
(* succeed or fail.  The session is on an unwrapped key; the store holds   *)
(* any records.                                                            *)
(***************************************************************************)
HookNames == {"pre-hook", "post-hook", "error-hook", "new-pre", "new-post",
              "pass-pre", "pass-post", "clear-hook"}

\* anyhow!("hook exited with an error code: {}", cmd)
HookError(name) ==
    CASE name = "pre-hook" -> "hook exited with an error code: pre-hook"
      [] name = "post-hook" -> "hook exited with an error code: post-hook"
      [] name = "error-hook" -> "hook exited with an error code: error-hook"
      [] name = "new-pre" -> "hook exited with an error code: new-pre"
      [] name = "new-post" -> "hook exited with an error code: new-post"
      [] name = "pass-pre" -> "hook exited with an error code: pass-pre"
      [] name = "pass-post" -> "hook exited with an error code: pass-post"
      [] OTHER -> "hook exited with an error code: clear-hook"

\* `if let Some(hook) = .. { call_hook(hook, args)? }` in process q: no
\* event when the hook is not configured; a hook that is skipped as nested
\* is not run and counts as a success
call_hook(q, name, arg, success) ==
    IF name \notin cli.hooks THEN <<>>
    ELSE IF cli.skip THEN <<Ev(q, name, TRUE, FALSE, arg)>>
    ELSE <<Ev(q, name, success, TRUE, arg)>>

\* the hook was called and returned an error
Failed(events) == events # <<>> /\ ~events[1].ok

\* the error an event stands for: of a hook, or of the subcommand
ErrorOf(event) == IF event.what = "subcommand" THEN event.arg ELSE HookError(event.what)

\* the subcommand returns in process q with error err ("" for Ok(())), after
\* the events given
Returned(q, events, err) ==
    [cli EXCEPT !.log = @ \o events \o <<Ev(q, "subcommand", err = "", TRUE, err)>>,
                !.pc[q] = IF err = "" THEN "post" ELSE "error",
                !.err[q] = err]

\* run: the global pre-hook, which `kbs2 agent` does not get
run_pre(q) ==
    /\ cli.pc[q] = "start"
    /\ \E success \in BOOLEAN :
         LET pre == IF cli.cmd = "agent" THEN <<>>
                    ELSE call_hook(q, "pre-hook", "", success) IN
         cli' = [cli EXCEPT !.log = @ \o pre,
                            !.pc[q] = IF Failed(pre) THEN "error" ELSE "cmd",
                            !.err[q] = IF Failed(pre) THEN ErrorOf(pre[1]) ELSE ""]
    /\ UNCHANGED <<agentvars, connvars, cmdvars, rekeyvars, notcli>>

\* `return kbs2::command::agent(matches, config)`: no post-hook follows
cmd_agent(q) ==
    /\ cli.pc[q] = "cmd"
    /\ cli.cmd = "agent"
    /\ \E ok \in BOOLEAN :
         LET err == IF ok THEN "" ELSE "failed to connect to agent; is it running?" IN
         cli' = [Returned(q, <<>>, err) EXCEPT !.pc[q] = IF ok THEN "exit" ELSE "error"]
    /\ UNCHANGED <<agentvars, connvars, cmdvars, rekeyvars, notcli>>

\* command::list, standing for the subcommands without hooks of their own
cmd_list(q) ==
    /\ cli.pc[q] = "cmd"
    /\ cli.cmd = "list"
    /\ \E ok \in BOOLEAN :
         cli' = Returned(q, <<>>, IF ok THEN "" ELSE "No such file or directory (os error 2)")
    /\ UNCHANGED <<agentvars, connvars, cmdvars, rekeyvars, notcli>>

\* a variant of command::new without the check for --force
cmd_new_Unchecked(q) ==
    /\ cli.pc[q] = "cmd"
    /\ cli.cmd = "new"
    /\ \E session, pre_ok, input, written, post_ok \in BOOLEAN :
         LET pre  == call_hook(q, "new-pre", "", pre_ok)
             post == call_hook(q, "new-post", cli.label, post_ok)
             record == Record(2, cli.label, cli.body)
         IN  IF ~session
             THEN cli' = Returned(q, <<>>, "session failed") /\ UNCHANGED store
             ELSE IF Failed(pre)
             THEN cli' = Returned(q, pre, ErrorOf(pre[1])) /\ UNCHANGED store
             ELSE IF ~input
             THEN cli' = Returned(q, pre, "input failed") /\ UNCHANGED store
             ELSE IF ~written
             THEN cli' = Returned(q, pre, "write failed") /\ UNCHANGED store
             ELSE /\ store' = [store EXCEPT ![cli.label] = encrypt(config.public_key, record)]
                  /\ cli' = Returned(q, pre \o post, IF Failed(post) THEN ErrorOf(post[1]) ELSE "")
    /\ UNCHANGED <<agentvars, connvars, config, ses, op, shadow, rekeyvars, notcli>>

\* command::new: the session, the pre-hook of new, the check for --force,
\* the fields of the record, Session::add_record, the post-hook of new
cmd_new(q) ==
    /\ cli.pc[q] = "cmd"
    /\ cli.cmd = "new"
    /\ \E session, pre_ok, input, written, post_ok \in BOOLEAN :
         LET pre  == call_hook(q, "new-pre", "", pre_ok)
             post == call_hook(q, "new-post", cli.label, post_ok)
             record == Record(2, cli.label, cli.body)
         IN  IF ~session
             THEN cli' = Returned(q, <<>>, "session failed") /\ UNCHANGED store
             ELSE IF Failed(pre)
             THEN cli' = Returned(q, pre, ErrorOf(pre[1])) /\ UNCHANGED store
             ELSE IF has_record(cli.label) /\ ~cli.flag
             THEN /\ cli' = Returned(q, pre, "refusing to overwrite a record without --force")
                  /\ UNCHANGED store
             ELSE IF ~input
             THEN cli' = Returned(q, pre, "input failed") /\ UNCHANGED store
             ELSE IF ~written
             THEN cli' = Returned(q, pre, "write failed") /\ UNCHANGED store
             ELSE /\ store' = [store EXCEPT ![cli.label] = encrypt(config.public_key, record)]
                  /\ cli' = Returned(q, pre \o post, IF Failed(post) THEN ErrorOf(post[1]) ELSE "")
    /\ UNCHANGED <<agentvars, connvars, config, ses, op, shadow, rekeyvars, notcli>>

\* command::pass up to the password: the session, the pre-hook of pass, the
\* record, which must be a login; then fork() with --clipboard, where the
\* child is left in clip() and the parent goes on
cmd_pass(q) ==
    /\ cli.pc[q] = "cmd"
    /\ cli.cmd = "pass"
    /\ \E session, pre_ok, forked \in BOOLEAN :
         LET pre == call_hook(q, "pass-pre", "", pre_ok)
             record == get_record(cli.label)
         IN  IF ~session THEN cli' = Returned(q, <<>>, "session failed")
             ELSE IF Failed(pre) THEN cli' = Returned(q, pre, ErrorOf(pre[1]))
             ELSE IF ~record.ok THEN cli' = Returned(q, pre, record.val)
             ELSE IF record.val.body # "login"
             THEN cli' = Returned(q, pre, "not a login record")
             ELSE IF cli.flag /\ ~forked
             THEN cli' = Returned(q, pre, "clipboard fork failed")
             ELSE cli' = [cli EXCEPT !.log = @ \o pre,
                                     !.pc = [p \in Ps |->
                                               IF p = q THEN "tail"
                                               ELSE IF cli.flag THEN "clip" ELSE @[p]]]
    /\ UNCHANGED <<agentvars, connvars, cmdvars, rekeyvars, notcli>>

\* the forked child: clip() or clip_primary(), then on with pass as the
\* match arm ends
pass_clip(q) ==
    /\ cli.pc[q] = "clip"
    /\ \E set, clear_after, cleared, hook_ok \in BOOLEAN :
         LET hook == IF clear_after THEN call_hook(q, "clear-hook", "", hook_ok) ELSE <<>> IN
         IF ~set THEN cli' = Returned(q, <<>>, "unable to store to the clipboard")
         ELSE IF clear_after /\ ~cleared
         THEN cli' = Returned(q, <<>>, "unable to clear the clipboard")
         ELSE IF Failed(hook) THEN cli' = Returned(q, hook, ErrorOf(hook[1]))
         ELSE cli' = [cli EXCEPT !.log = @ \o hook, !.pc[q] = "tail"]
    /\ UNCHANGED <<agentvars, connvars, cmdvars, rekeyvars, notcli>>

\* command::pass after the match on fork(): the post-hook of pass
pass_tail(q) ==
    /\ cli.pc[q] = "tail"
    /\ \E post_ok \in BOOLEAN :
         LET post == call_hook(q, "pass-post", "", post_ok) IN
         cli' = Returned(q, post, IF Failed(post) THEN ErrorOf(post[1]) ELSE "")
    /\ UNCHANGED <<agentvars, connvars, cmdvars, rekeyvars, notcli>>

\* run after the subcommand returned Ok: the global post-hook
run_post(q) ==
    /\ cli.pc[q] = "post"
    /\ \E success \in BOOLEAN :
         LET post == call_hook(q, "post-hook", "", success) IN
         cli' = [cli EXCEPT !.log = @ \o post,
                            !.pc[q] = IF Failed(post) THEN "error" ELSE "exit",
                            !.err[q] = IF Failed(post) THEN ErrorOf(post[1]) ELSE ""]
    /\ UNCHANGED <<agentvars, connvars, cmdvars, rekeyvars, notcli>>

\* main, the Err arm: `config.call_hook(error_hook, &[&e.to_string()])?;
\* Err(e)`
main_error(q) ==
    /\ cli.pc[q] = "error"
    /\ \E success \in BOOLEAN :
         LET hook == call_hook(q, "error-hook", cli.err[q], success) IN
         cli' = [cli EXCEPT !.log = @ \o hook,
                            !.pc[q] = "exit",
                            !.err[q] = IF Failed(hook) THEN HookError("error-hook") ELSE @]
    /\ UNCHANGED <<agentvars, connvars, cmdvars, rekeyvars, notcli>>

\* the hooks of the configuration: the three global hooks in any
\* combination, the hooks of the subcommands all set or all unset
CliHooks ==
    {hooks \in SUBSET HookNames :
        /\ ("new-pre" \in hooks <=> "new-post" \in hooks)
        /\ ("pass-pre" \in hooks <=> "pass-post" \in hooks)
        /\ ("pass-pre" \in hooks <=> "clear-hook" \in hooks)
        /\ ("new-pre" \in hooks <=> "pass-pre" \in hooks)}

InitCli ==
    /\ InitAgent
    /\ NoClients
    /\ rk = NoRk
    /\ rewritten = NoRewrite
    /\ config = Config(FALSE, FALSE, "pk1", "bare")
    /\ ses = Ses("session", Uid_effective, Uid_effective, 0, 0, 0, 0, KeyFile("bare").id, "")
    /\ store \in {s \in RekeyStores : \A l \in Labels : s[l] # NoCt => s[l].to = "pk1"}
    /\ op = NoOp
    /\ shadow = NoShadow
    /\ gen = NoGen
    /\ call = NoCall
    /\ wire = NoWire
    /\ rg = NoRg
    /\ cli \in {Cli(cmd, "a", flag, IF cmd = "new" THEN "login" ELSE "", hooks, skip,
                    [q \in Ps |-> IF q = "parent" THEN "start" ELSE "none"],
                    [q \in Ps |-> ""], <<>>) :
                  cmd \in {"new", "pass", "list", "agent"}, flag \in BOOLEAN,
                  hooks \in CliHooks, skip \in BOOLEAN}

NextCli ==
    \E q \in Ps :
        \/ run_pre(q)
        \/ cmd_agent(q)
        \/ cmd_list(q)
        \/ cmd_new(q)
        \/ cmd_pass(q)
        \/ pass_clip(q)
        \/ pass_tail(q)
        \/ run_post(q)
        \/ main_error(q)

SpecCli == InitCli /\ [][NextCli]_vars

(***************************************************************************)
(* SpecGuard: one call of util.rs read_guarded(path, limit), step by step, *)
(* while another process may write to the file at path or truncate it at   *)
(* any moment.  Sizes are counted in bytes, up to MaxSize.                 *)
(***************************************************************************)
MaxSize == 4

\* File::open(&path)?
guard_open ==
    /\ rg.pc = "start"
    /\ \E opened \in BOOLEAN :
         rg' = IF opened THEN [rg EXCEPT !.pc = "opened"]
               ELSE [rg EXCEPT !.pc = "done",
                               !.result = Err("No such file or directory")]
    /\ UNCHANGED <<agentvars, connvars, cmdvars, rekeyvars, notrg>>

\* file.metadata()? and the comparison of meta.len() with the limit
guard_metadata ==
    /\ rg.pc = "opened"
    /\ \E stat \in BOOLEAN :
         rg' = IF ~stat
               THEN [rg EXCEPT !.pc = "done", !.result = Err("Input/output error")]
               ELSE IF rg.size > rg.limit
               THEN [rg EXCEPT !.pc = "done", !.len = rg.size,
                               !.result = Err("requested file is suspiciously large, refusing")]
               ELSE [rg EXCEPT !.pc = "checked", !.len = rg.size]
    /\ UNCHANGED <<agentvars, connvars, cmdvars, rekeyvars, notrg>>

\* Vec::with_capacity(meta.len()), file.read_to_end(&mut buf)?, Ok(buf):
\* the vector grows as needed and takes every byte up to the end of the file
guard_read ==
    /\ rg.pc = "checked"
    /\ \E read \in BOOLEAN :
         rg' = [rg EXCEPT !.pc = "done",
                          !.result = IF read THEN Ok(rg.size)
                                     ELSE Err("Input/output error")]
    /\ UNCHANGED <<agentvars, connvars, cmdvars, rekeyvars, notrg>>

\* another process appends to the file or truncates it
other_write ==
    /\ rg.pc \in {"start", "opened", "checked"}
    /\ \E size \in 0 .. MaxSize :
         /\ size # rg.size
         /\ rg' = [rg EXCEPT !.size = size]
    /\ UNCHANGED <<agentvars, connvars, cmdvars, rekeyvars, notrg>>

InitGuard ==
    /\ InitAgent
    /\ NoClients
    /\ rk = NoRk
    /\ rewritten = NoRewrite
    /\ config = NoConfig
    /\ ses = NoSes
    /\ NoStore
    /\ gen = NoGen
    /\ call = NoCall
    /\ wire = NoWire
    /\ cli = NoCli
    /\ rg \in {Rg(limit, size, "start", 0, Ok(0)) :
                 limit \in 0 .. MaxSize - 1, size \in 0 .. MaxSize}

NextGuard ==
    \/ guard_open
    \/ guard_metadata
    \/ guard_read
    \/ other_write

SpecGuard == InitGuard /\ [][NextGuard]_vars

(***************************************************************************)
(* Properties.                                                             *)
(***************************************************************************)
\* p answered a line in this step (a request or a fatal error)
Answered(p) ==
    /\ pc[p] = "handling"
    /\ nresp'[p] = nresp[p] + 1
    /\ last'.proc = p

\* p ran handle_request_body on a body of type t in this step
HandledBody(p, t) ==
    /\ Answered(p)
    /\ last'.line.kind = "req"
    /\ last'.line.protocol = PROTOCOL_VERSION
    /\ last'.line.body.type = t

\* p accepted a connection in this step
Accepted(p) ==
    /\ pc[p] = "accepting"
    /\ last'.proc = p
    /\ last'.line = NoLine
    /\ <<nresp, last, pc>>' # <<nresp, last, pc>>

SamePeerUid(peer) == peer.ok /\ peer.uid = Uid_effective

\* C1: a connection whose peer uid differs from the agent's effective uid, or
\* whose peer credentials cannot be read, gets exactly one response,
\* Failure(Auth); none of its requests is processed, the cache and the
\* quitting flag are unchanged, and the connection is closed.  Requests are
\* answered only on connections of a peer with the agent's uid.
C1_AuthFailure ==
    [][\A p \in Procs :
          /\ (Accepted(p) /\ ~SamePeerUid(last'.peer)) =>
                /\ last'.resp = Failure("Auth")
                /\ nresp'[p] = 1
                /\ pc'[p] # "handling"
                /\ unwrapped_keys'[p] = unwrapped_keys[p]
                /\ quitting'[p] = quitting[p]
          /\ Answered(p) => SamePeerUid(last'.peer)
          /\ pc'[p] = "handling" => SamePeerUid(last'.peer)]_vars

C1_Witness ==
    \E p \in Procs :
        /\ last.proc = p
        /\ last.peer.ok /\ last.peer.uid # Uid_effective
        /\ last.resp = Failure("Auth")
        /\ nresp[p] = 1
        /\ pc[p] = "accepting"

\* C2: a request whose protocol field differs from PROTOCOL_VERSION is
\* answered Failure(VersionMismatch(PROTOCOL_VERSION)) whatever its body; the
\* body is not processed (cache and quitting flag unchanged) and the
\* connection ends.
C2_VersionMismatch ==
    [][\A p \in Procs :
          (/\ Answered(p)
           /\ last'.line.kind = "req"
           /\ last'.line.protocol # PROTOCOL_VERSION) =>
                /\ last'.resp = VersionMismatch(PROTOCOL_VERSION)
                /\ last'.file = NotRead
                /\ unwrapped_keys'[p] = unwrapped_keys[p]
                /\ quitting'[p] = quitting[p]
                /\ pc'[p] # "handling"]_vars

C2_Witness ==
    /\ last.line.kind = "req"
    /\ last.line.protocol > PROTOCOL_VERSION
    /\ last.line.body.type = "Quit"
    /\ last.resp = VersionMismatch(PROTOCOL_VERSION)
    /\ pc[last.proc] = "accepting"
    /\ unwrapped_keys[last.proc] # EmptyMap

\* C3: UnwrapKey for a cached pubkey answers "OK; agent already has unwrapped
\* key" for any path and passphrase, reads no keyfile and leaves the cache
\* unchanged; a second UnwrapKey for the pubkey a first one just stored
\* leaves the entry the first one stored.
C3_UnwrapCached ==
    [][\A p \in Procs :
          /\ (/\ HandledBody(p, "UnwrapKey")
              /\ last'.line.body.pubkey \in DOMAIN unwrapped_keys[p]) =>
                /\ last'.resp = Success("OK; agent already has unwrapped key")
                /\ last'.file = NotRead
                /\ unwrapped_keys'[p] = unwrapped_keys[p]
                /\ quitting'[p] = quitting[p]
          /\ (/\ HandledBody(p, "UnwrapKey")
              /\ last.proc = p
              /\ last.resp = Success("OK; unwrapped key ready")
              /\ last'.line.body.pubkey = last.line.body.pubkey) =>
                /\ last'.resp = Success("OK; agent already has unwrapped key")
                /\ DOMAIN unwrapped_keys'[p] = DOMAIN unwrapped_keys[p]
                /\ unwrapped_keys'[p][last.line.body.pubkey]
                      = Entry(last.line.body.keyfile, last.file.id)]_vars

C3_Witness ==
    \E p \in Procs :
        /\ last.proc = p
        /\ last.resp = Success("OK; agent already has unwrapped key")
        /\ last.line.body.pubkey \in DOMAIN unwrapped_keys[p]
        /\ unwrapped_keys[p][last.line.body.pubkey].keyfile # last.line.body.keyfile
        /\ last.line.body.password # KeyFile(last.line.body.keyfile).pass

\* C4: UnwrapKey for a pubkey that is not cached: when unwrapping the keyfile
\* fails (unreadable, oversized, not passphrase-wrapped, too costly, wrong
\* passphrase) the answer is Failure(Unwrap(msg)) and the cache is unchanged;
\* when it succeeds the answer is "OK; unwrapped key ready" and the cache
\* gains exactly pubkey -> (path, unwrapped identity).
UnwrapFails(file, password) ==
    \/ file.kind = "absent"
    \/ file.size > MAX_WRAPPED_KEY_FILESIZE
    \/ file.kind # "scrypt"
    \/ file.wf > MAX_WORK_FACTOR
    \/ file.pass # password

C4_UnwrapNotCached ==
    [][\A p \in Procs :
          (/\ HandledBody(p, "UnwrapKey")
           /\ last'.line.body.pubkey \notin DOMAIN unwrapped_keys[p]) =>
             LET body == last'.line.body
                 file == KeyFile(body.keyfile)
             IN  /\ last'.file = file
                 /\ quitting'[p] = quitting[p]
                 /\ IF UnwrapFails(file, body.password)
                    THEN /\ last'.resp.type = "Failure"
                         /\ last'.resp.kind = "Unwrap"
                         /\ unwrapped_keys'[p] = unwrapped_keys[p]
                    ELSE /\ last'.resp = Success("OK; unwrapped key ready")
                         /\ DOMAIN unwrapped_keys'[p]
                               = DOMAIN unwrapped_keys[p] \cup {body.pubkey}
                         /\ unwrapped_keys'[p][body.pubkey]
                               = [keyfile |-> body.keyfile, key |-> file.id]
                         /\ \A k \in DOMAIN unwrapped_keys[p] :
                               unwrapped_keys'[p][k] = unwrapped_keys[p][k]]_vars

C4_Witness ==
    \E p \in Procs :
        /\ last.proc = p
        /\ last.line.body.type = "UnwrapKey"
        /\ last.resp.type = "Failure" /\ last.resp.kind = "Unwrap"
        /\ last.file.kind = "scrypt" /\ last.file.pass # last.line.body.password
        /\ last.line.body.pubkey \notin DOMAIN unwrapped_keys[p]
        /\ unwrapped_keys[p] # EmptyMap

\* C5: QueryUnwrappedKey(pub) answers Success("OK") iff pub is cached, else
\* Failure(Query); GetUnwrappedKey(pub) answers Success(k) iff pub is cached,
\* k being the identity the cache holds for pub, which is the one stored when
\* pub was inserted (an entry never changes while it stays in the cache);
\* neither changes the cache or the quitting flag.
C5_QueryGet ==
    [][\A p \in Procs :
          /\ HandledBody(p, "QueryUnwrappedKey") =>
                /\ last'.resp = IF last'.line.body.pubkey \in DOMAIN unwrapped_keys[p]
                                THEN Success("OK") ELSE Failure("Query")
                /\ unwrapped_keys'[p] = unwrapped_keys[p]
                /\ quitting'[p] = quitting[p]
          /\ HandledBody(p, "GetUnwrappedKey") =>
                /\ last'.resp = IF last'.line.body.pubkey \in DOMAIN unwrapped_keys[p]
                                THEN Success(unwrapped_keys[p][last'.line.body.pubkey].key)
                                ELSE Failure("Query")
                /\ unwrapped_keys'[p] = unwrapped_keys[p]
                /\ quitting'[p] = quitting[p]
          /\ \A k \in (DOMAIN unwrapped_keys[p]) \cap (DOMAIN unwrapped_keys'[p]) :
                unwrapped_keys'[p][k] = unwrapped_keys[p][k]]_vars

C5_Witness ==
    \E p \in Procs :
        /\ last.proc = p
        /\ last.line.body.type = "GetUnwrappedKey"
        /\ last.line.body.pubkey = "pk2"
        /\ last.resp = Success("AGE-SECRET-KEY-1B")
        /\ DOMAIN unwrapped_keys[p] = Pubs
        /\ unwrapped_keys[p]["pk1"].key = "AGE-SECRET-KEY-1A"

\* C6: FlushKeys answers Success("OK") and leaves the cache empty and the
\* quitting flag unchanged; with an empty cache Query and Get answer
\* Failure(Query) for every pubkey, and the cache stays empty until a
\* successful UnwrapKey.
C6_FlushKeys ==
    [][\A p \in Procs :
          /\ HandledBody(p, "FlushKeys") =>
                /\ last'.resp = Success("OK")
                /\ unwrapped_keys'[p] = EmptyMap
                /\ quitting'[p] = quitting[p]
          /\ (/\ unwrapped_keys[p] = EmptyMap
              /\ \/ HandledBody(p, "QueryUnwrappedKey")
                 \/ HandledBody(p, "GetUnwrappedKey")) =>
                last'.resp = Failure("Query")
          /\ (unwrapped_keys[p] = EmptyMap /\ unwrapped_keys'[p] # EmptyMap) =>
                /\ HandledBody(p, "UnwrapKey")
                /\ last'.resp = Success("OK; unwrapped key ready")]_vars

C6_Witness ==
    \E p \in Procs :
        /\ last.proc = p
        /\ last.line.body.type = "GetUnwrappedKey"
        /\ last.resp = Failure("Query")
        /\ unwrapped_keys[p] = EmptyMap
        /\ nresp[p] > 1

\* C7: a processed Quit is answered Success("OK") and sets the quitting flag;
\* the flag stays set; when the connection on which it was set completes, run
\* returns instead of accepting again; run returns Ok only with the flag set,
\* and the flag is set only by a Quit.
C7_Quit ==
    [][\A p \in Procs :
          /\ HandledBody(p, "Quit") =>
                /\ last'.resp = Success("OK")
                /\ quitting'[p]
                /\ unwrapped_keys'[p] = unwrapped_keys[p]
          /\ quitting[p] => quitting'[p]
          /\ (~quitting[p] /\ quitting'[p]) => HandledBody(p, "Quit")
          /\ (quitting[p] /\ pc[p] = "handling" /\ pc'[p] # "handling") =>
                pc'[p] = "run_ok"
          /\ (pc[p] = "accepting" \/ pc'[p] = "accepting") => ~quitting'[p]
          /\ (pc[p] \in {"accepting", "handling"} /\ ~quitting[p]) =>
                pc'[p] \in {"accepting", "handling"}]_vars

C7_Witness ==
    \E p \in Procs :
        /\ pc[p] = "run_ok"
        /\ quitting[p]
        /\ last.proc = p
        /\ last.line = IoErrLine

\* C8: when run has returned (Ok after a Quit, or Err after a failed bind)
\* no socket file is left at the agent's path.
C8_SocketRemoved ==
    [][\A p \in Procs :
          (pc[p] \in {"daemonized", "accepting", "handling"}
              /\ pc'[p] \in {"run_ok", "run_err"}) => ~sock'.exists]_vars

C8_Witness ==
    \E p \in Procs :
        /\ pc[p] = "run_ok"
        /\ ~panicked[p]
        /\ ~sock.exists
        /\ unwrapped_keys[p] # EmptyMap

\* C9: Agent::new fails whenever the socket file exists, whether a running
\* agent bound it or a dead one left it, and the failed start leaves the
\* file as it is; the process does nothing afterwards.
C9_StartRefused ==
    [][\A p \in Procs :
          /\ (pc[p] = "start" /\ sock.exists /\ pc'[p] # "start") =>
                /\ pc'[p] = "new_err"
                /\ sock' = sock
          /\ (pc[p] = "start" /\ pc'[p] = "new_err") => (sock.exists /\ sock' = sock)
          /\ pc[p] = "new_err" => pc'[p] = "new_err"]_vars

C9_Witness ==
    \E p, q \in Procs :
        /\ pc[p] = "new_err"
        /\ pc[q] = "handling"
        /\ sock = Bound(q)

\* C10: as long as an agent is in its accept loop the socket file exists and
\* is the one it bound.
C10_OneAgent ==
    \A p \in Procs :
        pc[p] \in {"accepting", "handling"} => sock = Bound(p)

\* C14: the cache belongs to the agent process, not to a connection: only a
\* processed FlushKeys removes or changes an entry, so accepting a
\* connection, its end of file and its Auth, Io, Malformed and
\* VersionMismatch failures leave the cache as it is; the first
\* GetUnwrappedKey of a connection returns the identity an earlier
\* connection unwrapped.
C14_CacheShared ==
    [][\A p \in Procs :
          /\ ~HandledBody(p, "FlushKeys") =>
                \A k \in DOMAIN unwrapped_keys[p] :
                    /\ k \in DOMAIN unwrapped_keys'[p]
                    /\ unwrapped_keys'[p][k] = unwrapped_keys[p][k]
          /\ (\/ Accepted(p)
              \/ pc[p] = "handling" /\ pc'[p] # "handling"
              \/ Answered(p) /\ last'.resp.type = "Failure"
                    /\ last'.resp.kind \in {"Auth", "Io", "Malformed", "VersionMismatch"}) =>
                unwrapped_keys'[p] = unwrapped_keys[p]
          /\ (/\ HandledBody(p, "GetUnwrappedKey")
              /\ nresp[p] = 0
              /\ last'.line.body.pubkey \in DOMAIN unwrapped_keys[p]) =>
                last'.resp = Success(unwrapped_keys[p][last'.line.body.pubkey].key)]_vars

C14_Witness ==
    \E p \in Procs :
        /\ last.proc = p
        /\ pc[p] = "handling"
        /\ nresp[p] = 1
        /\ last.line.body.type = "GetUnwrappedKey"
        /\ last.resp = Success("AGE-SECRET-KEY-1B")

(***************************************************************************)
(* Connections (SpecConn).                                                 *)
(***************************************************************************)
Connected == {c \in Clients : client[c] = "connected"}

\* C11: the agent handles one connection to completion before it accepts the
\* next: at most one connection is being handled at any time, a connection
\* is taken up only when none is being handled, a finished connection never
\* comes back, and the cache changes only in a step of the one connection
\* being handled; so the cache changes of two connections never interleave.
C11_OneConnection ==
    [][/\ Cardinality({c \in Clients : client'[c] = "connected"}) <= 1
       /\ \A c \in Clients :
             /\ (client[c] # "connected" /\ client'[c] = "connected") =>
                    (Connected = {} /\ client[c] = "queued" /\ c = Head(backlog))
             /\ client[c] = "closed" => client'[c] = "closed"
       /\ unwrapped_keys' # unwrapped_keys =>
             \E c \in Clients :
                 /\ Connected = {c}
                 /\ \A d \in Clients \ {c} : client'[d] = client[d]]_vars

C11_Witness ==
    \E c, d \in Clients : \E p \in Procs :
        /\ client[c] = "closed"
        /\ client[d] = "connected"
        /\ hist.keys # EmptyMap
        /\ unwrapped_keys[p] = EmptyMap
        /\ pc[p] = "handling"

\* the cache and quitting flag after the agent handled the request lines
\* `lines` one after the other, starting from keys and q
RECURSIVE Run(_, _, _)
Run(keys, q, lines) ==
    IF lines = <<>>
    THEN [keys |-> keys, quitting |-> q]
    ELSE LET h == handle_request_body(keys, q, Head(lines).body)
         IN  Run(h.keys, h.quitting, Tail(lines))

WellFormed(line) == line.kind = "req" /\ line.protocol = PROTOCOL_VERSION

\* C12: on an authenticated connection every line read has exactly one
\* response, written in the order of the lines; the n-th response is the
\* answer to the n-th request computed on the cache that requests 1..n-1
\* left behind, starting from the cache the agent had when it accepted the
\* connection.
C12_InOrder ==
    hist.auth =>
        /\ Len(hist.rcvd) = Len(hist.sent)
        /\ \A n \in 1 .. Len(hist.sent) :
              WellFormed(hist.sent[n]) =>
                  LET before == Run(hist.keys, hist.quitting, SubSeq(hist.sent, 1, n - 1))
                  IN  hist.rcvd[n] =
                        handle_request_body(before.keys, before.quitting,
                                            hist.sent[n].body).resp

C12_Witness ==
    /\ hist.auth
    /\ hist.keys = EmptyMap
    /\ Len(hist.sent) >= MaxReqs
    /\ hist.sent[1].body.type = "UnwrapKey"
    /\ hist.sent[2].body.type = "GetUnwrappedKey"
    /\ hist.rcvd[1] = Success("OK; unwrapped key ready")
    /\ hist.rcvd[2] = Success("AGE-SECRET-KEY-1A")

UnusualUid == ses.uid = 0 \/ ses.uid # ses.euid

\* C15 as stated: Agent::spawn launches no agent process when the caller is
\* root or its real and effective uids differ, and in those cases it
\* returns an error.
C15_SpawnRefused ==
    [][/\ ses'.launched > ses.launched => ~UnusualUid
       /\ (ses'.spawns > ses.spawns /\ UnusualUid) =>
             (ses'.launched = ses.launched /\ ses'.pc = "failed")]_vars

\* C15 amended: Agent::spawn launches no agent process when the caller is
\* root or its real and effective uids differ; in those cases it returns
\* the error "unusual UID or UID/EUID pair found, refusing to spawn" when no
\* socket file exists, and returns Ok without looking at the uids when the
\* socket file exists.
C15_SpawnRefusedUnlessSocket ==
    [][/\ ses'.launched > ses.launched => (~UnusualUid /\ ~sock.exists)
       /\ (ses'.spawns > ses.spawns /\ UnusualUid) =>
             /\ ses'.launched = ses.launched
             /\ IF sock.exists
                THEN ses'.pc = "store" /\ ses'.err = ""
                ELSE /\ ses'.pc = "failed"
                     /\ ses'.err = "unusual UID or UID/EUID pair found, refusing to spawn"]_vars

C15_Witness ==
    /\ ses.spawns = 1
    /\ ses.uid # 0 /\ ses.euid = 0
    /\ ses.pc = "failed"
    /\ ses.err = "unusual UID or UID/EUID pair found, refusing to spawn"
    /\ ses.launched = 0
    /\ \A p \in Procs : pc[p] = "start"

Present == {l \in Labels : has_record(l)}
Range(seq) == {seq[i] : i \in DOMAIN seq}

\* C19: as long as every add, delete and rename on the initially empty store
\* succeeded, every listing record_labels can return holds each label once
\* and holds exactly the labels added or renamed to and not deleted or
\* renamed from since; an add of a label that exists leaves the set of
\* labels as it is, and a delete removes its label and touches no other
\* file.
C19_Labels ==
    /\ [](shadow.allok =>
            \A seq \in read_dir :
                /\ Range(seq) = shadow.expect
                /\ Len(seq) = Cardinality(shadow.expect))
    /\ [][/\ (op' # op /\ op'.name = "labels" /\ shadow.allok) =>
               Range(op'.list) = shadow.expect
          /\ (op'.name = "add" /\ op'.ok /\ has_record(op'.label)) =>
               Present' = Present
          /\ (op' # op /\ op'.name = "delete" /\ op'.ok) =>
               /\ Present' = Present \ {op'.label}
               /\ \A l \in Labels \ {op'.label} : store'[l] = store[l]]_vars

C19_Witness ==
    /\ shadow.allok
    /\ op.name = "labels"
    /\ op.list = <<"b">>
    /\ shadow.added = NoRecords

\* C20: as long as every operation succeeded, get_record of a label returns
\* the record of the latest add of that label, for every label that no
\* delete or rename has touched since that add.
C20_GetAfterAdd ==
    /\ [](shadow.allok =>
            \A l \in DOMAIN shadow.added : get_record(l) = Ok(shadow.added[l]))
    /\ [][(/\ op' # op
            /\ op'.name = "get"
            /\ shadow.allok
            /\ op'.label \in DOMAIN shadow.added) =>
                (op'.ok /\ op'.rec = shadow.added[op'.label])]_vars

C20_Witness ==
    /\ shadow.allok
    /\ op.name = "get" /\ op.ok
    /\ op.label = "a"
    /\ op.rec = Record(2, "a", "environment")
    /\ DOMAIN shadow.added = {"a"}
    /\ shadow.expect = Labels

(***************************************************************************)
(* C17  Rekey never deadlocks against the single-client agent: whenever    *)
(* rekey is constructing its new session (and from then on) the agent      *)
(* client it used to flush the old key and add the new one is closed, so   *)
(* it never waits for the agent while holding an open agent connection;    *)
(* and as long as rekey has not returned, some step of rekey or of the     *)
(* agent can be taken.                                                     *)
(***************************************************************************)
RekeyReturned == rk.pc \in {"done", "declined", "failed"}

IdentityOf(pubkey) == CHOOSE id \in Ids : to_public(id) = pubkey

GetOrDeleteMissing ==
    /\ op' # op
    /\ op'.name \in {"get", "delete"}
    /\ ~has_record(op'.label)

C21_NoSuchRecord ==
    /\ [](\A l \in Labels \cup {""} : has_record(l) <=> (l \in Labels /\ store[l] # NoCt))
    /\ [][GetOrDeleteMissing =>
            (~op'.ok /\ op'.err = NoSuchRecord(op'.label) /\ store' = store)]_vars

\* C21 as the code has it: the same for every label that names no entry of
\* the store directory; a label that names a directory (has is false for it
\* too) makes get fail with "no such record: L" and delete with the error
\* of the operating system; the store is unchanged in all these cases.
C21_NoSuchRecordUnlessDir ==
    /\ [](\A l \in Labels \cup {""} : has_record(l) <=> (l \in Labels /\ store[l] # NoCt))
    /\ [][GetOrDeleteMissing =>
            /\ ~op'.ok
            /\ store' = store
            /\ (op'.name = "get" \/ ~is_dir(op'.label)) =>
                  op'.err = NoSuchRecord(op'.label)
            /\ (op'.name = "delete" /\ is_dir(op'.label)) =>
                  op'.err = "Is a directory (os error 21)"]_vars

\* a delete of a label that is not in a store that holds another record
C21_Witness ==
    /\ op.name = "delete"
    /\ ~op.ok
    /\ op.label = "a"
    /\ op.err = "no such record: a"
    /\ has_record("b")
    /\ ~has_record("a")

(***************************************************************************)
(* C22  For all labels a and b with a in the store, after a successful     *)
(* rename(a, b): has(a) is false, get(b) is the record that was under a    *)
(* with its label set to b, and every other record is unchanged; when a is *)
(* absent, rename fails with NoSuchRecord and the store is unchanged.      *)
(***************************************************************************)
\* the step is a rename of label op'.label
Renamed == op' # op /\ op'.name = "rename"

C22_Rename ==
    [][\A a, b \in Labels :
         /\ (Renamed /\ op'.label = a /\ op'.ok /\ op'.list = <<b>> /\ has_record(a)) =>
              /\ ~has_record(a)'
              /\ get_record(a).ok =>
                   get_record(b)' = Ok([get_record(a).val EXCEPT !.label = b])
              /\ \A l \in Labels \ {a, b} : store'[l] = store[l]
         /\ (Renamed /\ op'.label = a /\ ~has_record(a)) =>
              (~op'.ok /\ op'.err = NoSuchRecord(a) /\ store' = store)]_vars

(***************************************************************************)
(* C23  rename(old, new) fails and leaves the store unchanged, the record  *)
(* under old and the record under new included, when new already exists   *)
(* and the caller did not allow overwriting.                               *)
(***************************************************************************)
C23_RenameRefused ==
    [][\A old, new \in Labels :
         (has_record(new) /\ rename_record(old, new, FALSE)) =>
            (~op'.ok /\ op'.name = "rename" /\ store' = store)]_vars

\* a rename onto another record was refused
C23_Witness ==
    /\ op.name = "rename"
    /\ ~op.ok
    /\ op.err = "refusing to overwrite"
    /\ op.label = "a"
    /\ has_record("a")
    /\ has_record("b")
    /\ store["a"] # store["b"]

Matching == to_public(ses.identity) = config.public_key

\* the step decrypts, with identity id, what the step before encrypted
Decrypts(id) ==
    /\ op.name = "encrypt"
    /\ op'.name = "decrypt"
    /\ op'.label = id
    /\ op'.list = op.list

C26_NoMatchingKeys ==
    [][\A id \in Ids :
         (Decrypts(id) /\ to_public(id) # op.list[1].to) =>
            /\ ~op'.ok
            /\ op'.err = "unable to decrypt (backend reports: NoMatchingKeys)"
            /\ op'.rec = NoRecord]_vars

\* the backend of ragelib_backend_bad_keypair failed to decrypt what it
\* encrypted
C26_Witness ==
    /\ ~Matching
    /\ op.name = "decrypt"
    /\ op.label = ses.identity
    /\ ~op.ok
    /\ op.list[1].kind = "age"
    /\ op.list[1].to = config.public_key
    /\ op.err = "unable to decrypt (backend reports: NoMatchingKeys)"

(***************************************************************************)
(* C28  unwrap_keyfile fails, before any decryption, whenever the keyfile  *)
(* on disk is larger than 4096 bytes, and never refuses a file for its     *)
(* size when the size is at most 4096 bytes.                               *)
(***************************************************************************)
\* the step is a call of unwrap_keyfile on the keyfile, which exists
Unwraps == op' # op /\ op'.name = "unwrap" /\ KeyFile(config.keyfile).kind # "absent"

TooLarge == "requested file is suspiciously large, refusing"

C28_SizeGuard ==
    [][Unwraps =>
         IF KeyFile(config.keyfile).size > 4096
         THEN ~op'.ok /\ op'.err = TooLarge
         ELSE op'.err # TooLarge]_vars

\* a keyfile of exactly 4096 bytes was unwrapped
C28_Witness ==
    /\ op.name = "unwrap"
    /\ op.ok
    /\ KeyFile(config.keyfile).size = 4096
    /\ op.list = <<KeyFile(config.keyfile).id>>

(***************************************************************************)
(* C29  unwrap_keyfile accepts, given the right passphrase, a wrapped key  *)
(* of any scrypt work factor up to and including 22, and rejects every     *)
(* wrapped key whose work factor is above 22.                              *)
(***************************************************************************)
\* the step unwraps a passphrase-wrapped keyfile of acceptable size with its
\* passphrase
UnwrapsWithRightPass ==
    /\ Unwraps
    /\ KeyFile(config.keyfile).kind = "scrypt"
    /\ KeyFile(config.keyfile).size <= MAX_WRAPPED_KEY_FILESIZE
    /\ KeyFile(config.keyfile).pass = op'.label

C29_WorkFactorCeiling ==
    [][UnwrapsWithRightPass =>
         IF KeyFile(config.keyfile).wf <= 22
         THEN op'.ok /\ op'.list = <<KeyFile(config.keyfile).id>>
         ELSE ~op'.ok]_vars

(***************************************************************************)
(* C27  After rewrap_keyfile(path, p1, p2) succeeds on a keyfile wrapped   *)
(* with p1, unwrapping the file with p2 yields the identity that           *)
(* unwrapping the original file with p1 yielded, unwrapping with p1 no     *)
(* longer succeeds when p1 # p2, and the file differs from the original;   *)
(* when p1 is wrong, rewrap fails and the keyfile is unchanged.            *)
(***************************************************************************)
\* the step is rewrap_keyfile(config.keyfile, p1, p2) on a wrapped keyfile
Rewraps(p1, p2) ==
    /\ op' # op \/ rewritten' # rewritten
    /\ op'.name = "rewrap"
    /\ op'.label = p1
    /\ op'.list = <<p2>>
    /\ KeyFile(config.keyfile).kind = "scrypt"

C27_Rewrap ==
    [][\A p1, p2 \in Passes :
         Rewraps(p1, p2) =>
           /\ KeyFile(config.keyfile).pass # p1 => ~op'.ok
           /\ ~op'.ok => KeyFile(config.keyfile)' = KeyFile(config.keyfile)
           /\ op'.ok =>
                /\ unwrap_keyfile(KeyFile(config.keyfile)', p2)
                     = unwrap_keyfile(KeyFile(config.keyfile), p1)
                /\ p1 # p2 => ~unwrap_keyfile(KeyFile(config.keyfile)', p1).ok
                /\ KeyFile(config.keyfile)' # KeyFile(config.keyfile)]_vars

(***************************************************************************)
(* C30  `agent query` ends with exit code 0 when the agent holds the key   *)
(* of the config, 1 when the agent is reachable and the key is not cached, *)
(* 2 when the config has a bare key, 3 when the agent is unreachable; it   *)
(* never changes the cache of the agent.                                   *)
(***************************************************************************)
Queries == op.name = "none" /\ op'.name = "agent query"

QueryExitCode ==
    IF ~config.wrapped THEN 2
    ELSE IF ~\E p \in Procs : Reachable(p) THEN 3
    ELSE IF \E p \in Procs : Reachable(p) /\ config.public_key \in DOMAIN unwrapped_keys[p]
         THEN 0
    ELSE 1

C30_QueryExitCodes ==
    [][Queries =>
         /\ exit_code(op') = QueryExitCode
         /\ unwrapped_keys' = unwrapped_keys]_vars

(***************************************************************************)
(* C31  Every secret the internal generator returns has exactly `length`   *)
(* characters and at least one character of each alphabet, whatever the    *)
(* alphabets and the length; it returns an error when there is no          *)
(* alphabet, an alphabet is empty or non-ASCII, the length is 0, or there  *)
(* are more alphabets than the length allows.                              *)
(***************************************************************************)
BadGenerator ==
    \/ gen.alphabets = <<>>
    \/ gen.length = 0
    \/ \E i \in 1 .. Len(gen.alphabets) :
         gen.alphabets[i] = <<>> \/ ~is_ascii(gen.alphabets[i])
    \/ Len(gen.alphabets) > gen.length

C31_GeneratorInvariants ==
    gen.called =>
      /\ BadGenerator => ~gen.result.ok
      /\ gen.result.ok =>
           /\ Len(gen.result.val) = gen.length
           /\ \A i \in 1 .. Len(gen.alphabets) :
                \E k \in 1 .. Len(gen.alphabets[i]) : \E j \in 1 .. Len(gen.result.val) :
                   gen.result.val[j] = gen.alphabets[i][k]

(***************************************************************************)
(* C32  A line that cannot be parsed is answered Failure(Malformed) and a  *)
(* read error Failure(Io); the agent then handles no further request of    *)
(* that connection: handle_client returns, with the cache and the quitting *)
(* flag as they were, and the agent accepts the next connection unless a   *)
(* Quit was handled earlier on this connection.                            *)
(***************************************************************************)
\* p read a line that is no request, or failed to read one, in this step
ReadFatal(p) ==
    /\ pc[p] = "handling"
    /\ last'.proc = p
    /\ last' # last
    /\ last'.line \in {BadLine, IoErrLine}

C32_FatalEndsConnection ==
    [][\A p \in Procs :
         ReadFatal(p) =>
           /\ last'.resp.type = "Failure"
           /\ last'.resp.kind = IF last'.line = BadLine THEN "Malformed" ELSE "Io"
           /\ nresp'[p] = nresp[p] + 1
           /\ pc'[p] # "handling"
           /\ unwrapped_keys'[p] = unwrapped_keys[p]
           /\ quitting'[p] = quitting[p]
           /\ pc'[p] = "accepting" <=> ~quitting[p]]_vars

\* after a malformed line on a connection that had cached a key, the agent
\* is accepting again and still holds the key
C32_Witness ==
    \E p \in Procs :
        /\ pc[p] = "accepting"
        /\ last.proc = p
        /\ last.line = BadLine
        /\ last.resp.kind = "Malformed"
        /\ nresp[p] > 1
        /\ unwrapped_keys[p] # EmptyMap

(***************************************************************************)
(* C38  Client::flush_keys and Client::quit_agent return Ok only if the    *)
(* agent answered Success, that is only if the agent cleared its cache,    *)
(* respectively set its quitting flag; when the agent answers Failure they *)
(* return an error.                                                        *)
(***************************************************************************)
\* the call returns in this step, having read a response
Returns == call.pc = "sent" /\ call'.pc = "returned" /\ call.inbox # <<>>

C38_OkOnlyOnSuccess ==
    [][Returns => (call'.result.ok <=> Head(call.inbox).type = "Success")]_vars

(***************************************************************************)
(* C33  Reading one message takes the bytes up to and including the first  *)
(* '\n' and none after it: with several messages waiting on a connection,  *)
(* successive reads return each of them, in order, and none is dropped.    *)
(***************************************************************************)
RECURSIVE Framed(_)
\* the bytes of messages written one after the other
Framed(payloads) ==
    IF payloads = <<>> THEN <<>>
    ELSE Head(payloads) \o <<Newline>> \o Framed(Tail(payloads))

\* what the reader has not yet returned: its line and buffer, then the stream
Unread == wire.line \o wire.buf \o wire.stream

\* the messages read are the first of those written, and the bytes not yet
\* returned are exactly the other messages
NothingLost ==
    /\ Len(wire.got) <= Len(wire.sent)
    /\ wire.got = SubSeq(wire.sent, 1, Len(wire.got))
    /\ Unread = Framed(SubSeq(wire.sent, Len(wire.got) + 1, Len(wire.sent)))

C33_ReadStopsAtNewline ==
    [][/\ NothingLost'
       /\ Len(wire'.got) = Len(wire.got) + 1 =>
            LET m == wire'.got[Len(wire'.got)] IN
              /\ \A i \in 1 .. Len(m) : m[i] # Newline
              /\ Unread = m \o <<Newline>> \o Unread']_vars

\* a message was read while another whole message waited behind it, and
\* that one was read next
C33_Witness ==
    /\ wire.ahead >= 2
    /\ Len(wire.got) = 3
    /\ wire.got = wire.sent
    /\ wire.got[2] # wire.got[3]

(***************************************************************************)
(* C34  Agent::spawn launches no process and returns success when the      *)
(* socket file exists already.  Otherwise, once it has launched the agent, *)
(* it checks for the socket file at most 10 times, returns success at the  *)
(* first check that finds the file, and returns the error "agent spawn     *)
(* timeout exhausted" when none of the 10 checks finds it.                 *)
(***************************************************************************)
\* Agent::spawn is called in this step
Spawns == ses.pc = "new" /\ ses'.spawns = ses.spawns + 1

\* Agent::spawn checks for the socket file in this step, after a sleep
Polls == ses.pc = "polling" /\ ses' # ses

TimedOut == ses.pc = "failed" /\ ses.err = "agent spawn timeout exhausted"

C34_SpawnPolls ==
    [][/\ Spawns /\ sock.exists => ses'.launched = ses.launched /\ ses'.pc = "store"
       /\ Spawns /\ ses'.pc = "polling" => ses'.launched = ses.launched + 1 /\ ses'.attempt = 0
       /\ Polls =>
            /\ ses.attempt < 10
            /\ ses'.launched = ses.launched
            /\ IF sock.exists
               THEN ses'.pc = "store" /\ ses'.attempt = ses.attempt
               ELSE /\ ses'.attempt = ses.attempt + 1
                    /\ IF ses'.attempt = 10 THEN TimedOut' ELSE ses'.pc = "polling"
       /\ TimedOut' /\ ~TimedOut => Polls /\ ses'.attempt = 10]_vars

\* the launched agent bound its socket after nine checks had missed it, and
\* the tenth check found it
C34_Witness ==
    /\ ses.pc = "store"
    /\ ses.launched = 1
    /\ ses.attempt = 9
    /\ sock.exists

(***************************************************************************)
(* C35.  `kbs2 new L` and --force.                                         *)
(***************************************************************************)
\* command::new runs in this step
RunsNew == cli.cmd = "new" /\ cli.pc["parent"] = "cmd" /\ cli'.pc["parent"] # "cmd"

\* the hooks called and the return of the subcommand in this step
Logged == SubSeq(cli'.log, Len(cli.log) + 1, Len(cli'.log))

Refusal == "refusing to overwrite a record without --force"

NewRecord == encrypt(config.public_key, Record(2, cli.label, cli.body))

\* C35 as stated: `kbs2 new L` without --force fails with 'refusing to
\* overwrite a record without --force' whenever a record labelled L exists,
\* leaves the store unchanged and runs no post-hook; with --force, or when
\* L is absent, the record stored under L afterwards is the new one.
C35_Stated ==
    [][RunsNew =>
         IF has_record(cli.label) /\ ~cli.flag
         THEN /\ cli'.err["parent"] = Refusal
              /\ store' = store
              /\ \A i \in DOMAIN Logged : Logged[i].what # "new-post"
         ELSE store'[cli.label] = NewRecord]_vars

\* C35, amended: `kbs2 new L` without --force fails whenever a record
\* labelled L exists, with 'refusing to overwrite a record without --force'
\* unless the session or the pre-hook of new failed before the check; it
\* then leaves the store unchanged and runs no post-hook.  With --force, or
\* when L is absent, the record stored under L is the new one once new got
\* as far as its post-hook, and the store is unchanged when new failed
\* before.
C35_NewAndForce ==
    [][RunsNew =>
         LET err == cli'.err["parent"] IN
         IF has_record(cli.label) /\ ~cli.flag
         THEN /\ err \in {Refusal, "session failed", HookError("new-pre")}
              /\ err = HookError("new-pre") =>
                   /\ "new-pre" \in cli.hooks
                   /\ ~cli.skip
              /\ cli'.pc["parent"] = "error"
              /\ store' = store
              /\ \A i \in DOMAIN Logged : Logged[i].what # "new-post"
         ELSE IF err \in {"", HookError("new-post")}
              THEN /\ store' = [store EXCEPT ![cli.label] = NewRecord]
                   /\ "new-post" \in cli.hooks =>
                        \E i \in DOMAIN Logged : Logged[i].what = "new-post"
              ELSE /\ store' = store
                   /\ err \in {"session failed", HookError("new-pre"),
                               "input failed", "write failed"}]_vars

\* new refused to overwrite the record of its label, which is still the old
\* one
C35_Witness ==
    /\ cli.cmd = "new"
    /\ ~cli.flag
    /\ cli.err["parent"] = Refusal
    /\ has_record(cli.label)
    /\ store[cli.label] # NewRecord

(***************************************************************************)
(* C36.  The order of the global hooks.                                    *)
(***************************************************************************)
\* what the process the user started has called and got back, in order
ParentLog == SelectSeq(cli.log, LAMBDA e : e.proc = "parent")

\* the places of ParentLog where a hook of the name, or the subcommand, is
At(what) == {i \in DOMAIN ParentLog : ParentLog[i].what = what}

\* the places of ParentLog where the pre-hook, the subcommand or the
\* post-hook failed
Failures ==
    {i \in At("pre-hook") \cup At("subcommand") \cup At("post-hook") : ~ParentLog[i].ok}

Exited == cli.pc["parent"] = "exit"

\* C36: for every subcommand other than agent (hooks not skipped as
\* nested), the global pre-hook runs before the subcommand and the
\* subcommand is not executed if it fails; the global post-hook runs only
\* after the subcommand succeeded; the error-hook runs exactly when the
\* pre-hook, the subcommand or the post-hook failed, receives the error
\* message, and the original error is what the process reports; `kbs2
\* agent` runs neither pre- nor post-hook.
C36_HookOrder ==
    /\ cli.cmd \notin {"none", "agent"} /\ ~cli.skip =>
         /\ \A i \in At("subcommand") :
              /\ "pre-hook" \in cli.hooks =>
                   \E j \in At("pre-hook") : j < i /\ ParentLog[j].ran
              /\ \A j \in At("pre-hook") : ParentLog[j].ok
         /\ \A i \in At("post-hook") :
              \E j \in At("subcommand") : j < i /\ ParentLog[j].ok
         /\ \A i \in At("error-hook") :
              /\ ParentLog[i].ran
              /\ \E j \in Failures : j < i /\ ParentLog[i].arg = ErrorOf(ParentLog[j])
         /\ Exited /\ "error-hook" \in cli.hooks /\ Failures # {} => At("error-hook") # {}
         /\ Exited => \A j \in Failures : cli.err["parent"] = ErrorOf(ParentLog[j])
         /\ Exited /\ Failures = {} => cli.err["parent"] = ""
    /\ cli.cmd = "agent" => At("pre-hook") = {} /\ At("post-hook") = {}

(***************************************************************************)
(* C40.  The post-hooks of `kbs2 pass`.                                    *)
(***************************************************************************)
\* how often the hook of the name was run, by the parent and the child
Runs(name) ==
    Cardinality({i \in DOMAIN cli.log : cli.log[i].what = name /\ cli.log[i].ran})

\* C40: for one invocation of `kbs2 pass`, with or without --clipboard, the
\* post-hook of pass and the global post-hook each run at most once, the
\* parent process and the forked clipboard child counted together.
C40_PostHooksOnce ==
    cli.cmd = "pass" => Runs("pass-post") <= 1 /\ Runs("post-hook") <= 1

(***************************************************************************)
(* C39.  read_guarded and a file that changes.                             *)
(***************************************************************************)
\* read_guarded returned Ok(buf)
GuardedOk == rg.pc = "done" /\ rg.result.ok

\* C39: read_guarded(path, limit) never returns more than limit bytes, also
\* when another process changes the file between the check of the size and
\* the read.
C39_GuardedUnderRace == GuardedOk => rg.result.val <= rg.limit

(***************************************************************************)
(* C37.  rekey on a store with a record it cannot decrypt.                 *)
(***************************************************************************)
\* rekey has its session, and the store it started from holds a record
\* that the key of the session does not decrypt
Undecryptable ==
    /\ rk.pc \notin {"none", "start", "oldsession"}
    /\ \E l \in Labels :
         /\ rk.store0[l] # NoCt
         /\ ~decrypt(IdentityOf(rk.public_key0), rk.store0[l]).ok

\* rekey returned the error of the record it could not decrypt
CollectFailed == rk.pc = "failed" /\ rk.err # ""

\* keyfile, config file and record files are what they were, and no key
\* pair was generated
FilesUntouched ==
    /\ rk.new_identity = ""
    /\ rewritten = NoRewrite
    /\ config.public_key = rk.public_key0
    /\ store = rk.store0

OldKeyCached(p) ==
    unwrapped_keys[p] \in
      {EmptyMap,
       Insert(EmptyMap, rk.public_key0,
              Entry(config.keyfile, IdentityOf(rk.public_key0)))}

====
